---------------------------- MODULE Spec2Model ----------------------------
(***************************************************************************)
(* Classification and sensitivity engine of the state.vscdb analyzers:     *)
(* keyword_analyzer.py (KeywordAnalyzer), advanced_analyzer.py             *)
(* (AdvancedKeywordAnalyzer), keyword_analyzer_optimized.py                *)
(* (OptimizedKeywordAnalyzer), flexible_keyword_analyzer.py                *)
(* (FlexibleKeywordAnalyzer), and the run drivers of                       *)
(* state_vscdb_converter.py and comprehensive_dictionary_analyzer.py.      *)
(*                                                                         *)
(* Text is TLA+ strings; Python's str operations are modelled character by *)
(* character (lower, `in`, slicing), database values are tagged records.   *)
(***************************************************************************)
EXTENDS Integers, Sequences, FiniteSets, TLC

VARIABLES
    \* ---- one record put through the pure functions (SpecRecord) ----
    r_columns,      \* column names of the record
    r_row,          \* its raw values, aligned with r_columns
    r_op,           \* which function has been applied: "none" or its name
    r_out,          \* what that function returned
    \* ---- one run of an analyzer on a store (Spec) ----
    analyzer,       \* which script runs
    store,          \* what is at db_path
    db,             \* the tables of the store, in sqlite_master order
    options,        \* quick_mode, max_items, batch_size, max_results, keywords
    pc,             \* where the run is
    conn,           \* self.conn: "none", "open" or "closed"
    next_table,     \* index in db of the table the loop is at
    results,        \* self.results
    batch,          \* the locals of _search_table_optimized, as its last call left them
    processed_rows, \* stats['total_rows'] / stats['processed_rows']
    artifacts,      \* the directories and files created
    exported,       \* what the export handed to json.dump, and its
                    \* include_sensitive flag (the advanced analyzer has none)
    failed,         \* the tables whose scan raised
    tables_read,    \* the tables a statement was run on
    report,         \* what the last summary or report computation returned
    calls           \* how many search calls the object has started

r_vars == <<r_columns, r_row, r_op, r_out>>

vars ==
    <<r_columns, r_row, r_op, r_out, analyzer, store, db, options, pc, conn,
      next_table, results, batch, processed_rows, artifacts, exported,
      failed, tables_read, report, calls>>

-----------------------------------------------------------------------------
(* Python text operations *)

Min(a, b) == IF a <= b THEN a ELSE b
Max(a, b) == IF a >= b THEN a ELSE b

UpperAlphabet == "ABCDEFGHIJKLMNOPQRSTUVWXYZ"
LowerAlphabet == "abcdefghijklmnopqrstuvwxyz"
Digits == "0123456789"

CharAt(s, i) == SubSeq(s, i, i)

\* s[:n]
Take(s, n) == SubSeq(s, 1, Min(n, Len(s)))

\* s[-n:]  (n >= 1)
TakeLast(s, n) == SubSeq(s, Max(1, Len(s) - n + 1), Len(s))

UpperChars == {CharAt(UpperAlphabet, i) : i \in 1..26}

LowerOf ==
    [c \in UpperChars |->
        CharAt(LowerAlphabet, CHOOSE i \in 1..26 : CharAt(UpperAlphabet, i) = c)]

\* one character of str.lower()
LowerChar(c) == IF c \in UpperChars THEN LowerOf[c] ELSE c

\* str.lower(), character by character (split in halves to keep the
\* evaluation shallow on long values)
RECURSIVE lower(_)
lower(s) ==
    IF Len(s) = 0 THEN ""
    ELSE IF Len(s) = 1 THEN LowerChar(s)
    ELSE LET h == Len(s) \div 2
         IN  lower(SubSeq(s, 1, h)) \o lower(SubSeq(s, h + 1, Len(s)))

\* Python's  k in s  on strings
Contains(s, k) ==
    \E i \in 1..(Len(s) - Len(k) + 1) : SubSeq(s, i, i + Len(k) - 1) = k

\* x in list
InSeq(x, seq) == \E i \in 1..Len(seq) : seq[i] = x

\* any(k in text for k in keywords)
AnyIn(keywords, text) == \E i \in 1..Len(keywords) : Contains(text, keywords[i])

RECURSIVE NatStr(_)
NatStr(n) ==
    IF n < 10 THEN CharAt(Digits, n + 1)
    ELSE NatStr(n \div 10) \o CharAt(Digits, (n % 10) + 1)

-----------------------------------------------------------------------------
(* Raw values of a row, as sqlite3 hands them to Python *)

NULL == [t |-> "null"]
TextVal(s) == [t |-> "text", s |-> s]
IntVal(n) == [t |-> "int", n |-> n]
BytesVal(s) == [t |-> "bytes", s |-> s]

\* Python truth of a value:  if value:
Truthy(value) ==
    CASE value.t = "null"  -> FALSE
      [] value.t = "text"  -> value.s # ""
      [] value.t = "int"   -> value.n # 0
      [] value.t = "bytes" -> value.s # ""

\* str(value)
Str(value) ==
    CASE value.t = "null"  -> "None"
      [] value.t = "text"  -> value.s
      [] value.t = "int"   -> IF value.n < 0 THEN "-" \o NatStr(0 - value.n)
                              ELSE NatStr(value.n)
      [] value.t = "bytes" -> "b'" \o value.s \o "'"

\* SQLite's LOWER(col), for a column that is not NULL: a number is
\* converted to text, a blob is read as its bytes
SqlLower(value) ==
    lower(CASE value.t = "text"  -> value.s
            [] value.t = "bytes" -> value.s
            [] value.t = "int"   -> Str(value))

\* dict(zip(columns, row)), insertion-ordered
RowData(columns, row) ==
    [i \in 1..Min(Len(columns), Len(row)) |-> [key |-> columns[i], value |-> row[i]]]

-----------------------------------------------------------------------------
(* Taxonomy *)

\* KeywordAnalyzer.target_keywords and AdvancedKeywordAnalyzer.target_keywords
\* (the same table in both files), in declaration order
target_keywords == <<
    [name |-> "authentication",
     keywords |-> <<"token", "auth", "login", "logout", "credential", "password", "session">>],
    [name |-> "subscription",
     keywords |-> <<"pro", "plan", "subscription", "trial", "premium", "paid", "billing">>],
    [name |-> "ai_features",
     keywords |-> <<"max mode", "ai", "model", "chat", "composer", "copilot">>],
    [name |-> "account_status",
     keywords |-> <<"status", "active", "inactive", "enabled", "disabled", "banned">>],
    [name |-> "blackbox_specific",
     keywords |-> <<"blackbox", "blackboxai", "blackboxapp">>],
    [name |-> "usage_limits",
     keywords |-> <<"limit", "quota", "usage", "remaining", "consumed">>] >>

\* OptimizedKeywordAnalyzer.target_keywords
optimized_target_keywords == <<
    [name |-> "authentication",
     keywords |-> <<"token", "auth", "credential", "password", "session", "login">>],
    [name |-> "subscription",
     keywords |-> <<"pro", "plan", "subscription", "trial", "premium", "billing">>],
    [name |-> "ai_features",
     keywords |-> <<"ai", "model", "chat", "composer", "copilot", "max mode">>],
    [name |-> "account_status",
     keywords |-> <<"status", "active", "enabled", "disabled">>],
    [name |-> "blackbox_specific",
     keywords |-> <<"blackbox", "blackboxai", "blackboxapp">>],
    [name |-> "usage_limits",
     keywords |-> <<"limit", "quota", "usage", "remaining">>] >>

sensitive_categories ==
    [high_sensitive   |-> <<"token", "password", "key", "secret", "credential">>,
     medium_sensitive |-> <<"userid", "email", "api", "auth">>,
     low_sensitive    |-> <<"plan", "status", "mode", "feature">>]

\* the list local to _determine_sensitivity_fast
high_sensitive_keywords == <<"token", "password", "key", "secret", "credential", "auth">>

CategoryNames(taxonomy) == {taxonomy[i].name : i \in 1..Len(taxonomy)}

CategoryIndex(taxonomy, category) ==
    CHOOSE i \in 1..Len(taxonomy) : taxonomy[i].name = category

\* {category: [] for category in self.target_keywords}
EmptyMatches(taxonomy) == [c \in CategoryNames(taxonomy) |-> <<>>]

-----------------------------------------------------------------------------
(* Classifier *)

\* for keyword in config['keywords']: if keyword.lower() in value_str:
\*     if keyword not in matched: matched.append(keyword)
RECURSIVE keyword_hits(_, _, _)
keyword_hits(value_str, keywords, matched) ==
    IF Len(keywords) = 0 THEN matched
    ELSE LET keyword == Head(keywords)
             hit == Contains(value_str, lower(keyword)) /\ ~InSeq(keyword, matched)
         IN  keyword_hits(value_str, Tail(keywords),
                          IF hit THEN Append(matched, keyword) ELSE matched)

\* as matched_keywords, but leaving the column loop after the first column
matched_keywords_first_column(values, keywords, matched) ==
    IF Len(values) = 0 THEN matched
    ELSE IF Truthy(Head(values))
    THEN keyword_hits(lower(Str(Head(values))), keywords, matched)
    ELSE matched

\* as matched_keywords, with the keyword loop outside the column loop
matched_keywords_by_keyword(values, keywords, matched) ==
    matched \o SelectSeq(keywords,
                  LAMBDA k : /\ ~InSeq(k, matched)
                             /\ \E i \in 1..Len(values) :
                                    /\ Truthy(values[i])
                                    /\ Contains(lower(Str(values[i])), lower(k)))

\* for col, value in zip(columns, row): if value: value_str = str(value).lower(); ...
RECURSIVE matched_keywords(_, _, _)
matched_keywords(values, keywords, matched) ==
    IF Len(values) = 0 THEN matched
    ELSE LET value == Head(values)
         IN  matched_keywords(Tail(values), keywords,
                 IF Truthy(value)
                 THEN keyword_hits(lower(Str(value)), keywords, matched)
                 ELSE matched)

\* all_text += f" {col} {str(value)}"  for every truthy value
RECURSIVE all_text(_)
all_text(data) ==
    IF Len(data) = 0 THEN ""
    ELSE (IF Truthy(Head(data).value)
          THEN " " \o Head(data).key \o " " \o Str(Head(data).value)
          ELSE "") \o all_text(Tail(data))

\* KeywordAnalyzer._determine_sensitivity / AdvancedKeywordAnalyzer._determine_sensitivity
determine_sensitivity(data) ==
    LET text == lower(all_text(data))
    IN  IF AnyIn(sensitive_categories.high_sensitive, text) THEN "high"
        ELSE IF AnyIn(sensitive_categories.medium_sensitive, text) THEN "medium"
        ELSE "low"

\* " ".join(items)
RECURSIVE join_str(_)
join_str(items) ==
    IF Len(items) = 0 THEN ""
    ELSE IF Len(items) = 1 THEN Str(Head(items))
    ELSE Str(Head(items)) \o " " \o join_str(Tail(items))

\* " ".join(str(item) for item in data_row if item)
join_truthy(data_row) == join_str(SelectSeq(data_row, Truthy))

\* the slice [:500] of _determine_sensitivity_fast
DataStrLimit == 500

\* OptimizedKeywordAnalyzer._determine_sensitivity_fast
determine_sensitivity_fast(matched, data_row) ==
    IF \E i \in 1..Len(matched) : AnyIn(high_sensitive_keywords, lower(matched[i]))
    THEN "high"
    ELSE LET data_str == lower(Take(join_truthy(data_row), DataStrLimit))
         IN  IF AnyIn(high_sensitive_keywords, data_str) THEN "high"
             ELSE IF AnyIn(<<"userid", "email", "api">>, data_str) THEN "medium"
             ELSE "low"

\* text LIKE pattern, from text[i] and pattern[j] on: in the pattern _ stands
\* for any one character and % for any run of characters, a letter matches
\* in either case
RECURSIVE like(_, _, _, _)
like(text, i, pattern, j) ==
    IF j > Len(pattern) THEN i > Len(text)
    ELSE LET p == CharAt(pattern, j)
         IN  IF p = "%"
             THEN \E n \in i..(Len(text) + 1) : like(text, n, pattern, j + 1)
             ELSE /\ i <= Len(text)
                  /\ (p = "_" \/ LowerChar(CharAt(text, i)) = LowerChar(p))
                  /\ like(text, i + 1, pattern, j + 1)

\* the keyword holds a character that LIKE reads as a wildcard
has_wildcard(keyword) ==
    \E i \in 1..Len(keyword) : CharAt(keyword, i) \in {"_", "%"}

\* text LIKE '%keyword%', for a lower-case text: a plain substring test when
\* the keyword holds no wildcard
like_keyword(text, keyword) ==
    IF has_wildcard(keyword) THEN like(text, 1, "%" \o keyword \o "%", 1)
    ELSE Contains(text, keyword)

\* LOWER(col) LIKE '%kw%'  OR-ed over every keyword and every column; a
\* NULL column satisfies no LIKE
RECURSIVE where_any(_, _)
where_any(values, keywords) ==
    IF Len(values) = 0 THEN FALSE
    ELSE LET value == Head(values)
             text == SqlLower(value)
         IN  \/ /\ value.t # "null"
                /\ \E k \in 1..Len(keywords) : like_keyword(text, lower(keywords[k]))
             \/ where_any(Tail(values), keywords)

\* the rows the category's SELECT returns, in table order; quick mode adds
\* LIMIT max_items // len(target_keywords); no column, no query
category_rows(table, config, quick_mode, max_items) ==
    LET hit(row) == where_any(Take(row, Len(table.columns)), config.keywords)
        rows == SelectSeq(table.rows, hit)
    IN  IF Len(table.columns) = 0 \/ Len(config.keywords) = 0 THEN <<>>
        ELSE IF quick_mode THEN Take(rows, max_items \div Len(target_keywords))
        ELSE rows

\* the match_data built for one returned row (keyword_analyzer.py 203-225)
match_data(table, category, config, row) ==
    LET data == RowData(table.columns, row)
    IN  [table            |-> table.name,
         category         |-> category,
         columns          |-> table.columns,
         data             |-> data,
         matched_keywords |-> matched_keywords(Take(row, Len(table.columns)),
                                               config.keywords, <<>>),
         sensitivity      |-> determine_sensitivity(data)]

\* for row in rows: ... category_matches[category].append(match_data)
RECURSIVE append_matches(_, _, _, _, _)
append_matches(matches, table, category, config, rows) ==
    IF Len(rows) = 0 THEN matches
    ELSE append_matches(Append(matches, match_data(table, category, config, Head(rows))),
                        table, category, config, Tail(rows))

\* the category loop of _search_in_table from the k-th category on; the
\* query of category fail - 1 raises, and the except clause returns
\* category_matches as filled so far
RECURSIVE search_categories(_, _, _, _, _, _)
search_categories(table, quick_mode, max_items, fail, k, category_matches) ==
    IF k > Len(target_keywords) \/ (fail # 0 /\ k >= fail - 1) THEN category_matches
    ELSE LET config == target_keywords[k]
             rows == category_rows(table, config, quick_mode, max_items)
         IN  search_categories(table, quick_mode, max_items, fail, k + 1,
                 [category_matches EXCEPT
                     ![config.name] = append_matches(@, table, config.name, config, rows)])

\* KeywordAnalyzer._search_in_table / AdvancedKeywordAnalyzer._search_in_table.
\* fail names where the table's scan raises: 0 nowhere, 1 at PRAGMA
\* table_info, 1 + k at the query of the k-th category.
search_in_table(table, quick_mode, max_items, fail) ==
    search_categories(table, quick_mode, max_items, fail, 1, EmptyMatches(target_keywords))

\* as process_row, appending one match_data per matched keyword
process_row_per_keyword(row, columns, category_matches, table_name) ==
    [c \in DOMAIN category_matches |->
        LET config == optimized_target_keywords[CategoryIndex(optimized_target_keywords, c)]
            main_data == Take(row, Len(columns))
            matched == matched_keywords(main_data, config.keywords, <<>>)
        IN  category_matches[c] \o
                [k \in 1..Len(matched) |->
                    [table            |-> table_name,
                     category         |-> c,
                     columns          |-> columns,
                     data             |-> RowData(columns, main_data),
                     matched_keywords |-> <<matched[k]>>,
                     sensitivity      |-> determine_sensitivity_fast(matched, main_data)]]]

\* one row of OptimizedKeywordAnalyzer._process_batch: every category whose
\* keywords hit some field gets one match_data appended
process_row(row, columns, category_matches, table_name) ==
    [c \in DOMAIN category_matches |->
        LET config == optimized_target_keywords[CategoryIndex(optimized_target_keywords, c)]
            main_data == Take(row, Len(columns))
            matched == matched_keywords(main_data, config.keywords, <<>>)
        IN  IF Len(matched) > 0
            THEN Append(category_matches[c],
                        [table            |-> table_name,
                         category         |-> c,
                         columns          |-> columns,
                         data             |-> RowData(columns, main_data),
                         matched_keywords |-> matched,
                         sensitivity      |-> determine_sensitivity_fast(matched, main_data)])
            ELSE category_matches[c]]

\* OptimizedKeywordAnalyzer._process_batch
RECURSIVE process_batch(_, _, _, _)
process_batch(rows, columns, category_matches, table_name) ==
    IF Len(rows) = 0 THEN category_matches
    ELSE process_batch(Tail(rows), columns,
                       process_row(Head(rows), columns, category_matches, table_name),
                       table_name)

-----------------------------------------------------------------------------
(* Redactor *)

\* as censor_value, with both length tests off by one (>= for >)
censor_value_inclusive(value_str) ==
    IF Len(value_str) >= 20
    THEN Take(value_str, 10) \o "***[SENSITIVE DATA CENSORED]***" \o TakeLast(value_str, 5)
    ELSE IF Len(value_str) >= 10
    THEN Take(value_str, 5) \o "***[CENSORED]***"
    ELSE "***[CENSORED]***"

\* the three length bands of _censor_sensitive_data
censor_value(value_str) ==
    IF Len(value_str) > 20
    THEN Take(value_str, 10) \o "***[SENSITIVE DATA CENSORED]***" \o TakeLast(value_str, 5)
    ELSE IF Len(value_str) > 10
    THEN Take(value_str, 5) \o "***[CENSORED]***"
    ELSE "***[CENSORED]***"

\* as sensitive_key, testing key where the code tests key.lower()
sensitive_key_cased(key) == AnyIn(sensitive_categories.high_sensitive, key)

\* if any(sens in key_lower for sens in self.sensitive_categories["high_sensitive"])
sensitive_key(key) == AnyIn(sensitive_categories.high_sensitive, lower(key))

\* as censor_sensitive_data, masking every value that is not None whatever
\* its key
censor_every_field(data_dict) ==
    [i \in 1..Len(data_dict) |->
        IF data_dict[i].value.t = "null" THEN data_dict[i]
        ELSE [key |-> data_dict[i].key,
              value |-> TextVal(censor_value(Str(data_dict[i].value)))]]

\* AdvancedKeywordAnalyzer._censor_sensitive_data
censor_sensitive_data(data_dict) ==
    [i \in 1..Len(data_dict) |->
        LET key == data_dict[i].key
            value == data_dict[i].value
        IN  IF value.t = "null" THEN [key |-> key, value |-> NULL]
            ELSE IF sensitive_key(key)
            THEN [key |-> key, value |-> TextVal(censor_value(Str(value)))]
            ELSE [key |-> key, value |-> value]]

-----------------------------------------------------------------------------
(* json.loads, on the texts the exports hand to it *)

WhiteSpace == {" ", "\t", "\n", "\r"}

DigitChars == {CharAt(Digits, i) : i \in 1..10}

\* s[i:j+1], cut at the end of s
Slice(s, i, j) == SubSeq(s, i, Min(j, Len(s)))

RECURSIVE skip_ws(_, _)
skip_ws(s, i) ==
    IF i <= Len(s) /\ CharAt(s, i) \in WhiteSpace THEN skip_ws(s, i + 1) ELSE i

RECURSIVE scan_digits(_, _)
scan_digits(s, i) ==
    IF i <= Len(s) /\ CharAt(s, i) \in DigitChars THEN scan_digits(s, i + 1) ELSE i

RECURSIVE skip_ws_back(_, _)
skip_ws_back(s, j) ==
    IF j >= 1 /\ CharAt(s, j) \in WhiteSpace THEN skip_ws_back(s, j - 1) ELSE j

\* str.strip()
strip(s) ==
    LET first == skip_ws(s, 1)
        last == skip_ws_back(s, Len(s))
    IN  IF first > last THEN "" ELSE SubSeq(s, first, last)

\* the documents json.loads builds: dict (insertion-ordered), list, str,
\* number (kept as its lexeme), True, False, None
JObj(members) == [t |-> "obj", members |-> members]
JArr(items) == [t |-> "arr", items |-> items]
JStr(s) == [t |-> "str", s |-> s]
JNum(s) == [t |-> "num", s |-> s]
JLit(name) == [t |-> name]

ParseError == [ok |-> FALSE]
Parsed(doc, next) == [ok |-> TRUE, doc |-> doc, next |-> next]

\* dict[key] = value: a repeated key keeps its place and takes the last value
dict_set(members, key, value) ==
    IF \E i \in 1..Len(members) : members[i].key = key
    THEN [i \in 1..Len(members) |->
             IF members[i].key = key THEN [key |-> key, value |-> value]
             ELSE members[i]]
    ELSE Append(members, [key |-> key, value |-> value])

\* the index, from s[i] on, of the first character that ends a run of plain
\* characters inside a string (the closing quote, the backslash, and the
\* control characters, which are errors); Len(s) + 1 when there is none
plain_end(s, i) ==
    LET stops == {"\"", "\\", "\n", "\t", "\r", "\f"}
    IN  IF \E j \in i..Len(s) : CharAt(s, j) \in stops
        THEN CHOOSE j \in i..Len(s) :
                 /\ CharAt(s, j) \in stops
                 /\ \A k \in i..(j - 1) : CharAt(s, k) \notin stops
        ELSE Len(s) + 1

\* the body of a string, from the character after the opening quote.  The
\* escapes \u and \b are not decoded: no text of the model holds one.
RECURSIVE scan_string(_, _, _)
scan_string(s, i, acc) ==
    LET j == plain_end(s, i)
        run == acc \o SubSeq(s, i, j - 1)
    IN  IF j > Len(s) THEN ParseError
        ELSE LET c == CharAt(s, j)
             IN  IF c = "\"" THEN Parsed(JStr(run), j + 1)
                 ELSE IF c # "\\" THEN ParseError
                 ELSE IF j + 1 > Len(s) THEN ParseError
                 ELSE LET e == CharAt(s, j + 1)
                      IN  CASE e \in {"\"", "\\", "/"} -> scan_string(s, j + 2, run \o e)
                            [] e = "n" -> scan_string(s, j + 2, run \o "\n")
                            [] e = "t" -> scan_string(s, j + 2, run \o "\t")
                            [] e = "r" -> scan_string(s, j + 2, run \o "\r")
                            [] e = "f" -> scan_string(s, j + 2, run \o "\f")
                            [] OTHER   -> ParseError

\* -?(0|[1-9][0-9]*)(\.[0-9]+)?([eE][-+]?[0-9]+)?
parse_number(s, i) ==
    LET j == IF i <= Len(s) /\ CharAt(s, i) = "-" THEN i + 1 ELSE i
        int_end == IF j <= Len(s) /\ CharAt(s, j) = "0" THEN j + 1 ELSE scan_digits(s, j)
        frac_end == IF int_end <= Len(s) /\ CharAt(s, int_end) = "."
                       /\ scan_digits(s, int_end + 1) > int_end + 1
                    THEN scan_digits(s, int_end + 1) ELSE int_end
        sign_end == IF frac_end + 1 <= Len(s) /\ CharAt(s, frac_end + 1) \in {"-", "+"}
                    THEN frac_end + 2 ELSE frac_end + 1
        exp_end == IF frac_end <= Len(s) /\ CharAt(s, frac_end) \in {"e", "E"}
                      /\ scan_digits(s, sign_end) > sign_end
                   THEN scan_digits(s, sign_end) ELSE frac_end
    IN  IF int_end = j THEN ParseError
        ELSE Parsed(JNum(SubSeq(s, i, exp_end - 1)), exp_end)

RECURSIVE parse_value(_, _)
RECURSIVE parse_members(_, _, _)
RECURSIVE parse_items(_, _, _)

\* one value starting exactly at s[i]
parse_value(s, i) ==
    IF i > Len(s) THEN ParseError
    ELSE LET c == CharAt(s, i)
         IN  CASE c = "\"" -> scan_string(s, i + 1, "")
               [] c = "{" ->
                    LET j == skip_ws(s, i + 1)
                    IN  IF j <= Len(s) /\ CharAt(s, j) = "}" THEN Parsed(JObj(<<>>), j + 1)
                        ELSE parse_members(s, j, <<>>)
               [] c = "[" ->
                    LET j == skip_ws(s, i + 1)
                    IN  IF j <= Len(s) /\ CharAt(s, j) = "]" THEN Parsed(JArr(<<>>), j + 1)
                        ELSE parse_items(s, j, <<>>)
               [] c = "n" /\ Slice(s, i, i + 3) = "null" -> Parsed(JLit("null"), i + 4)
               [] c = "t" /\ Slice(s, i, i + 3) = "true" -> Parsed(JLit("true"), i + 4)
               [] c = "f" /\ Slice(s, i, i + 4) = "false" -> Parsed(JLit("false"), i + 5)
               [] c = "N" /\ Slice(s, i, i + 2) = "NaN" -> Parsed(JNum("NaN"), i + 3)
               [] c = "I" /\ Slice(s, i, i + 7) = "Infinity" -> Parsed(JNum("Infinity"), i + 8)
               [] c = "-" /\ Slice(s, i, i + 8) = "-Infinity" -> Parsed(JNum("-Infinity"), i + 9)
               [] OTHER -> parse_number(s, i)

\* "key" : value pairs, from the first key to the closing brace
parse_members(s, i, acc) ==
    IF i > Len(s) \/ CharAt(s, i) # "\"" THEN ParseError
    ELSE LET key == scan_string(s, i + 1, "")
         IN  IF ~key.ok THEN ParseError
             ELSE LET colon == skip_ws(s, key.next)
                  IN  IF colon > Len(s) \/ CharAt(s, colon) # ":" THEN ParseError
                      ELSE LET value == parse_value(s, skip_ws(s, colon + 1))
                           IN  IF ~value.ok THEN ParseError
                               ELSE LET more == dict_set(acc, key.doc.s, value.doc)
                                        j == skip_ws(s, value.next)
                                    IN  IF j > Len(s) THEN ParseError
                                        ELSE IF CharAt(s, j) = "}" THEN Parsed(JObj(more), j + 1)
                                        ELSE IF CharAt(s, j) = ","
                                        THEN parse_members(s, skip_ws(s, j + 1), more)
                                        ELSE ParseError

\* values, from the first one to the closing bracket
parse_items(s, i, acc) ==
    LET value == parse_value(s, i)
    IN  IF ~value.ok THEN ParseError
        ELSE LET more == Append(acc, value.doc)
                 j == skip_ws(s, value.next)
             IN  IF j > Len(s) THEN ParseError
                 ELSE IF CharAt(s, j) = "]" THEN Parsed(JArr(more), j + 1)
                 ELSE IF CharAt(s, j) = "," THEN parse_items(s, skip_ws(s, j + 1), more)
                 ELSE ParseError

\* json.loads(s): one value, white space around it, nothing after it
json_loads(s) ==
    LET value == parse_value(s, skip_ws(s, 1))
    IN  IF value.ok /\ skip_ws(s, value.next) = Len(s) + 1 THEN value ELSE ParseError

-----------------------------------------------------------------------------
(* Exports *)

\* what json.loads raises on a text that is not JSON
JSONDecodeError == [raised |-> "JSONDecodeError"]

\* as export_value, without the try around json.loads
export_value_uncaught(value) ==
    IF value.t = "text" /\ Take(strip(value.s), 1) \in {"{", "["}
    THEN LET parsed == json_loads(value.s)
         IN  IF parsed.ok THEN [t |-> "json", doc |-> parsed.doc] ELSE JSONDecodeError
    ELSE value

\* the per-field loop of export_results and export_comprehensive_results: a
\* str that starts, once stripped, with { or [ goes through json.loads and
\* is kept as it is when json.loads raises
export_value(value) ==
    IF value.t = "text" /\ Take(strip(value.s), 1) \in {"{", "["}
    THEN LET parsed == json_loads(value.s)
         IN  IF parsed.ok THEN [t |-> "json", doc |-> parsed.doc] ELSE value
    ELSE value

export_data(data) ==
    [i \in 1..Len(data) |-> [key |-> data[i].key, value |-> export_value(data[i].value)]]

\* the test with the flag read the other way round
export_filtered_inverted(match, include_sensitive) ==
    include_sensitive /\ match.sensitivity = "high"

\* if not include_sensitive and match['sensitivity'] == 'high'
export_filtered(match, include_sensitive) ==
    ~include_sensitive /\ match.sensitivity = "high"

\* one entry of detailed_results in KeywordAnalyzer.export_results
export_match(match, include_sensitive) ==
    [table            |-> match.table,
     category         |-> match.category,
     matched_keywords |-> match.matched_keywords,
     sensitivity      |-> match.sensitivity,
     data             |-> IF export_filtered(match, include_sensitive)
                          THEN <<[key   |-> "[SENSITIVE DATA FILTERED]",
                                  value |-> TextVal("Use include_sensitive=True to export")]>>
                          ELSE export_data(match.data)]

\* one entry of detailed_results in
\* OptimizedKeywordAnalyzer.export_comprehensive_results
export_match_comprehensive(match, include_sensitive) ==
    IF export_filtered(match, include_sensitive)
    THEN [table            |-> match.table,
          category         |-> match.category,
          matched_keywords |-> match.matched_keywords,
          sensitivity      |-> match.sensitivity,
          data_summary     |-> "[FILTERED - " \o NatStr(Len(match.data)) \o " sensitive fields]"]
    ELSE [table            |-> match.table,
          category         |-> match.category,
          matched_keywords |-> match.matched_keywords,
          sensitivity      |-> match.sensitivity,
          data             |-> export_data(match.data)]

\* one entry of "results" in AdvancedKeywordAnalyzer.save_category_files
save_match(match) ==
    IF match.sensitivity = "high"
    THEN [match EXCEPT !.data = censor_sensitive_data(match.data)]
    ELSE match

\* as stored_after_save when match_copy is the stored dict itself and not a
\* copy of it: the assignment to match_copy["data"] lands in the stored match
stored_after_save_aliased(match) == save_match(match)

\* the stored match once save_category_files has handled it: match_copy =
\* match.copy() is a new dict and _censor_sensitive_data fills a new dict, so
\* match_copy["data"] = ... leaves the stored one as it was
stored_after_save(match) == match

\* the stored match once export_results has handled it: match_data is a new
\* dict literal, and match is only read
stored_after_export(match, include_sensitive) == match

\* self.results once save_category_files has returned; keywords[c] and
\* raw_data hold the same match objects
results_after_save(found) ==
    [found EXCEPT
        !.keywords = [c \in DOMAIN found.keywords |->
                         [j \in 1..Len(found.keywords[c]) |->
                             stored_after_save(found.keywords[c][j])]],
        !.raw_data = [j \in 1..Len(found.raw_data) |->
                         stored_after_save(found.raw_data[j])]]

\* self.results once export_results has returned
results_after_export(found, include_sensitive) ==
    [found EXCEPT
        !.keywords = [c \in DOMAIN found.keywords |->
                         [j \in 1..Len(found.keywords[c]) |->
                             stored_after_export(found.keywords[c][j], include_sensitive)]],
        !.raw_data = [j \in 1..Len(found.raw_data) |->
                         stored_after_export(found.raw_data[j], include_sensitive)]]

\* for category, matches in self.results['keywords'].items(): if matches
with_matches(keywords) == {c \in DOMAIN keywords : Len(keywords[c]) > 0}

\* detailed_results of KeywordAnalyzer.export_results
export_results(keywords, include_sensitive) ==
    [c \in with_matches(keywords) |->
        [j \in 1..Len(keywords[c]) |-> export_match(keywords[c][j], include_sensitive)]]

\* detailed_results of OptimizedKeywordAnalyzer.export_comprehensive_results
export_comprehensive_results(keywords, include_sensitive) ==
    [c \in with_matches(keywords) |->
        [j \in 1..Len(keywords[c]) |->
            export_match_comprehensive(keywords[c][j], include_sensitive)]]

\* the "results" lists AdvancedKeywordAnalyzer.save_category_files writes,
\* one file per category that has matches
save_category_files(keywords) ==
    [c \in with_matches(keywords) |->
        [j \in 1..Len(keywords[c]) |-> save_match(keywords[c][j])]]

-----------------------------------------------------------------------------
(* Conversion of one value, and the credentials of a result *)

\* the str branch of process_value, also taken by decoded bytes: json.loads
\* when the stripped text starts with { or [, the text itself when that
\* raises or does not apply
process_text(text) ==
    IF Take(strip(text), 1) \in {"{", "["}
    THEN LET parsed == json_loads(text)
         IN  IF parsed.ok THEN [t |-> "json", doc |-> parsed.doc] ELSE TextVal(text)
    ELSE TextVal(text)

\* StateVscdbConverter.process_value.  Bytes that value.decode("utf-8")
\* rejects carry, as b64, the text of base64.b64encode(value).
process_value(value) ==
    CASE value.t = "null"  -> NULL
      [] value.t = "bytes" ->
            IF "b64" \notin DOMAIN value THEN process_text(value.s)
            ELSE TextVal("[BINARY DATA - BASE64]: " \o value.b64)
      [] value.t = "text"  -> process_text(value.s)
      [] OTHER             -> value

RECURSIVE py_repr(_)
RECURSIVE repr_items(_, _)
RECURSIVE repr_members(_, _)

\* repr() of a document of json.loads.  A str is quoted with ' (no text of
\* the model holds a quote or a backslash inside a string), an int is its
\* lexeme (no text of the model holds a float).
py_repr(doc) ==
    CASE doc.t = "str"   -> "'" \o doc.s \o "'"
      [] doc.t = "num"   -> doc.s
      [] doc.t = "true"  -> "True"
      [] doc.t = "false" -> "False"
      [] doc.t = "null"  -> "None"
      [] doc.t = "arr"   -> "[" \o repr_items(doc.items, 1) \o "]"
      [] doc.t = "obj"   -> "{" \o repr_members(doc.members, 1) \o "}"

repr_items(items, i) ==
    IF i > Len(items) THEN ""
    ELSE py_repr(items[i]) \o (IF i < Len(items) THEN ", " ELSE "")
             \o repr_items(items, i + 1)

repr_members(members, i) ==
    IF i > Len(members) THEN ""
    ELSE "'" \o members[i].key \o "': " \o py_repr(members[i].value)
             \o (IF i < Len(members) THEN ", " ELSE "")
             \o repr_members(members, i + 1)

\* str() of a document of json.loads
py_str(doc) == IF doc.t = "str" THEN doc.s ELSE py_repr(doc)

PreviewLimit == 50

\* text[:50] + "..." if len(text) > 50 else text
value_preview(text) ==
    IF Len(text) > PreviewLimit THEN Take(text, PreviewLimit) \o "..." ELSE text

\* as json_keys, with "token" moved from the first list to the second
json_keys_token_second ==
    [tokens            |-> <<"access", "refresh", "bearer">>,
     api_keys          |-> <<"token", "api", "key", "secret">>,
     user_ids          |-> <<"userid", "user_id", "uid">>,
     subscription_info |-> <<"plan", "subscription", "trial", "premium", "pro">>,
     account_status    |-> <<"status", "active", "enabled">>]

\* the keyword lists of _extract_from_json, in the order of its if / elif chain
json_keys ==
    [tokens            |-> <<"token", "access", "refresh", "bearer">>,
     api_keys          |-> <<"api", "key", "secret">>,
     user_ids          |-> <<"userid", "user_id", "uid">>,
     subscription_info |-> <<"plan", "subscription", "trial", "premium", "pro">>,
     account_status    |-> <<"status", "active", "enabled">>]

\* the keyword lists of _extract_from_string
string_keys ==
    [tokens   |-> <<"token", "access", "refresh">>,
     user_ids |-> <<"userid", "user_id">>]

\* credentials_info as extract_credentials_info creates it
EmptyCredentials ==
    [tokens |-> <<>>, api_keys |-> <<>>, user_ids |-> <<>>,
     subscription_info |-> <<>>, account_status |-> <<>>]

RECURSIVE extract_from_json(_, _, _)
RECURSIVE extract_from_items(_, _, _, _)

\* KeywordAnalyzer._extract_from_json: nothing unless json_data is a dict
extract_from_json(json_data, credentials_info, table_name) ==
    IF json_data.t = "obj"
    THEN extract_from_items(json_data.members, 1, credentials_info, table_name)
    ELSE credentials_info

\* for key, value in json_data.items(), from the i-th item on: the first
\* branch of the chain that applies, the recursion being its last branch
extract_from_items(members, i, credentials_info, table_name) ==
    IF i > Len(members) THEN credentials_info
    ELSE LET key == members[i].key
             value == members[i].value
             key_lower == lower(key)
             after ==
                 CASE AnyIn(json_keys.tokens, key_lower) ->
                        [credentials_info EXCEPT !.tokens = Append(@,
                            [key |-> key, value_preview |-> value_preview(py_str(value)),
                             table |-> table_name, type |-> "token"])]
                   [] ~AnyIn(json_keys.tokens, key_lower) /\ AnyIn(json_keys.api_keys, key_lower) ->
                        [credentials_info EXCEPT !.api_keys = Append(@,
                            [key |-> key, value_preview |-> value_preview(py_str(value)),
                             table |-> table_name, type |-> "api_key"])]
                   [] ~AnyIn(json_keys.tokens \o json_keys.api_keys, key_lower)
                        /\ AnyIn(json_keys.user_ids, key_lower) ->
                        [credentials_info EXCEPT !.user_ids = Append(@,
                            [key |-> key, value |-> value,
                             table |-> table_name, type |-> "user_id"])]
                   [] ~AnyIn(json_keys.tokens \o json_keys.api_keys \o json_keys.user_ids, key_lower)
                        /\ AnyIn(json_keys.subscription_info, key_lower) ->
                        [credentials_info EXCEPT !.subscription_info = Append(@,
                            [key |-> key, value |-> value,
                             table |-> table_name, type |-> "subscription"])]
                   [] ~AnyIn(json_keys.tokens \o json_keys.api_keys \o json_keys.user_ids
                                 \o json_keys.subscription_info, key_lower)
                        /\ AnyIn(json_keys.account_status, key_lower) ->
                        [credentials_info EXCEPT !.account_status = Append(@,
                            [key |-> key, value |-> value,
                             table |-> table_name, type |-> "status"])]
                   [] OTHER ->
                        IF value.t = "obj"
                        THEN extract_from_json(value, credentials_info, table_name)
                        ELSE credentials_info
         IN  extract_from_items(members, i + 1, after, table_name)

\* KeywordAnalyzer._extract_from_string
extract_from_string(col, value, credentials_info, table_name) ==
    LET col_lower == lower(col)
        value_str == value.s
    IN  IF AnyIn(string_keys.tokens, col_lower)
        THEN [credentials_info EXCEPT !.tokens = Append(@,
                 [key |-> col, value_preview |-> value_preview(value_str),
                  table |-> table_name, type |-> "token"])]
        ELSE IF AnyIn(string_keys.user_ids, col_lower)
        THEN [credentials_info EXCEPT !.user_ids = Append(@,
                 [key |-> col, value |-> value,
                  table |-> table_name, type |-> "user_id"])]
        ELSE credentials_info

\* one field of one match in extract_credentials_info: a non-empty str that
\* starts, once stripped, with { goes through json.loads and
\* _extract_from_json; when that raises, through _extract_from_string
extract_from_field(col, value, credentials_info, table_name) ==
    IF value.t = "text" /\ value.s # ""
    THEN IF Take(strip(value.s), 1) = "{"
         THEN LET parsed == json_loads(value.s)
              IN  IF parsed.ok
                  THEN extract_from_json(parsed.doc, credentials_info, table_name)
                  ELSE extract_from_string(col, value, credentials_info, table_name)
         ELSE credentials_info
    ELSE credentials_info

RECURSIVE extract_from_data(_, _, _, _)
\* for col, value in match['data'].items(), from the i-th field on
extract_from_data(data, i, credentials_info, table_name) ==
    IF i > Len(data) THEN credentials_info
    ELSE extract_from_data(data, i + 1,
             extract_from_field(data[i].key, data[i].value, credentials_info, table_name),
             table_name)

QuickCredentialsLimit == 200

RECURSIVE extract_from_matches(_, _, _)
\* for i, match in enumerate(data_to_process), from the i-th match on
extract_from_matches(data_to_process, i, credentials_info) ==
    IF i > Len(data_to_process) THEN credentials_info
    ELSE extract_from_matches(data_to_process, i + 1,
             extract_from_data(data_to_process[i].data, 1, credentials_info,
                               data_to_process[i].table))

\* KeywordAnalyzer.extract_credentials_info
extract_credentials_info(raw_data, quick_mode) ==
    extract_from_matches(
        IF quick_mode /\ Len(raw_data) > QuickCredentialsLimit
        THEN Take(raw_data, QuickCredentialsLimit) ELSE raw_data,
        1, EmptyCredentials)

-----------------------------------------------------------------------------
(* Summaries and reports *)

\* a float kept as the exact ratio num / den
Ratio(num, den) == [num |-> num, den |-> den]

\* what a division by zero raises
ZeroDivisionError == [raised |-> "ZeroDivisionError"]

\* a / b
true_div(a, b) == IF b = 0 THEN ZeroDivisionError ELSE Ratio(a, b)

\* x * n
times(x, n) == IF x = ZeroDivisionError THEN x ELSE Ratio(x.num * n, x.den)

\* as guarded_percentage, without the test on total
unguarded_percentage(part, total) == times(true_div(part, total), 100)

\* (part / total * 100) if total > 0 else 0
guarded_percentage(part, total) ==
    IF total > 0 THEN times(true_div(part, total), 100) ELSE Ratio(0, 1)

\* len([m for m in matches if m.get('sensitivity') == tier])
tier_count(matches, tier) ==
    Len(SelectSeq(matches, LAMBDA m : m.sensitivity = tier))

\* the percentages a report holds
report_percentages(rep) ==
    (IF "high_percentage" \in DOMAIN rep
     THEN {rep.high_percentage, rep.medium_percentage} ELSE {})
    \cup {rep.categories[c].percentage :
             c \in {d \in DOMAIN rep.categories : "percentage" \in DOMAIN rep.categories[d]}}

\* the report, unless one of its divisions raised
returned(rep) ==
    IF ZeroDivisionError \in report_percentages(rep) THEN ZeroDivisionError ELSE rep

\* KeywordAnalyzer.generate_security_report: the figures it prints
generate_security_report(found) ==
    LET total_matches == Len(found.raw_data)
        high_sensitive == tier_count(found.raw_data, "high")
        medium_sensitive == tier_count(found.raw_data, "medium")
    IN  returned(
            [total_matches     |-> total_matches,
             high_sensitive    |-> high_sensitive,
             medium_sensitive  |-> medium_sensitive,
             low_sensitive     |-> total_matches - high_sensitive - medium_sensitive,
             high_percentage   |-> guarded_percentage(high_sensitive, total_matches),
             medium_percentage |-> guarded_percentage(medium_sensitive, total_matches),
             categories        |->
                 [c \in with_matches(found.keywords) |->
                     [total       |-> Len(found.keywords[c]),
                      high_in_cat |-> tier_count(found.keywords[c], "high")]]])

\* OptimizedKeywordAnalyzer.generate_comprehensive_report: the figures it
\* prints; the percentage of a category is not guarded
generate_comprehensive_report(found) ==
    LET total_matches == Len(found.raw_data)
        high_sensitive == tier_count(found.raw_data, "high")
        medium_sensitive == tier_count(found.raw_data, "medium")
    IN  returned(
            [total_matches     |-> total_matches,
             high_sensitive    |-> high_sensitive,
             medium_sensitive  |-> medium_sensitive,
             low_sensitive     |-> total_matches - high_sensitive - medium_sensitive,
             high_percentage   |-> guarded_percentage(high_sensitive, total_matches),
             medium_percentage |-> guarded_percentage(medium_sensitive, total_matches),
             categories        |->
                 [c \in with_matches(found.keywords) |->
                     [total       |-> Len(found.keywords[c]),
                      high_in_cat |-> tier_count(found.keywords[c], "high"),
                      percentage  |-> times(true_div(Len(found.keywords[c]),
                                                     total_matches), 100)]]])

RECURSIVE count_keywords(_, _)
\* for keyword in match["matched_keywords"]: keyword_counts[keyword] += 1
count_keywords(keywords, counts) ==
    IF Len(keywords) = 0 THEN counts
    ELSE LET seen == {i \in 1..Len(counts) : counts[i].key = Head(keywords)}
             count == IF seen = {} THEN 0 ELSE counts[CHOOSE i \in seen : TRUE].value
         IN  count_keywords(Tail(keywords), dict_set(counts, Head(keywords), count + 1))

RECURSIVE keyword_counts(_, _)
\* for match in self.results["raw_data"]: keyword_counts, insertion-ordered
keyword_counts(raw_data, counts) ==
    IF Len(raw_data) = 0 THEN counts
    ELSE keyword_counts(Tail(raw_data), count_keywords(Head(raw_data).matched_keywords, counts))

RECURSIVE sorted_by_count(_, _)
\* sorted(items, key=lambda x: x[1], reverse=True): stable, so items of equal
\* count keep their order; each item goes after the sorted ones that have at
\* least its count
sorted_by_count(items, sorted) ==
    IF Len(items) = 0 THEN sorted
    ELSE LET item == Head(items)
             ahead == Cardinality({i \in 1..Len(sorted) : sorted[i].value >= item.value})
         IN  sorted_by_count(Tail(items),
                 SubSeq(sorted, 1, ahead) \o <<item>> \o SubSeq(sorted, ahead + 1, Len(sorted)))

TopKeywords == 10

\* as _get_top_keywords, without the sort
get_top_keywords_unsorted(raw_data) ==
    Take(keyword_counts(raw_data, <<>>), TopKeywords)

\* AdvancedKeywordAnalyzer._get_top_keywords
get_top_keywords(raw_data) ==
    Take(sorted_by_count(keyword_counts(raw_data, <<>>), <<>>), TopKeywords)

\* AdvancedKeywordAnalyzer.create_overall_summary: overall_statistics and
\* category_breakdown of summary_data
create_overall_summary(found) ==
    LET total_matches == Len(found.raw_data)
        high_sensitive == tier_count(found.raw_data, "high")
        medium_sensitive == tier_count(found.raw_data, "medium")
    IN  returned(
            [total_matches     |-> total_matches,
             high_sensitive    |-> high_sensitive,
             medium_sensitive  |-> medium_sensitive,
             low_sensitive     |-> total_matches - high_sensitive - medium_sensitive,
             categories        |->
                 [c \in with_matches(found.keywords) |->
                     [total            |-> Len(found.keywords[c]),
                      high_sensitive   |-> tier_count(found.keywords[c], "high"),
                      medium_sensitive |-> tier_count(found.keywords[c], "medium"),
                      low_sensitive    |-> tier_count(found.keywords[c], "low"),
                      percentage       |-> guarded_percentage(Len(found.keywords[c]),
                                                              total_matches)]],
             top_keywords      |-> get_top_keywords(found.raw_data)])

\* the summary of the analyzer a
summary_of(a, found) ==
    CASE a = "keyword"   -> generate_security_report(found)
      [] a = "optimized" -> generate_comprehensive_report(found)
      [] a = "advanced"  -> create_overall_summary(found)

\* no summary computed yet
NoReport == [computed |-> FALSE]

-----------------------------------------------------------------------------
(* The scan loops *)

\* sum(len(matches) for matches in table_matches.values())
RECURSIVE table_total(_, _, _)
table_total(table_matches, taxonomy, k) ==
    IF k > Len(taxonomy) THEN 0
    ELSE Len(table_matches[taxonomy[k].name]) + table_total(table_matches, taxonomy, k + 1)

RECURSIVE merge_matches_buckets_only(_, _, _, _, _, _)
\* as merge_matches, without the extension of raw_data
merge_matches_buckets_only(found, table_matches, taxonomy, k, quick_mode, max_items) ==
    IF k > Len(taxonomy) THEN found
    ELSE LET category == taxonomy[k].name
             remaining_slots == Max(0, max_items - Len(found.keywords[category]))
             matches == IF quick_mode THEN Take(table_matches[category], remaining_slots)
                        ELSE table_matches[category]
         IN  merge_matches_buckets_only(
                 [found EXCEPT !.keywords[category] = @ \o matches],
                 table_matches, taxonomy, k + 1, quick_mode, max_items)

\* the merge loop of search_keywords, from the k-th category on: in quick
\* mode a category takes at most max_items - len(results['keywords'][category])
\* of the table's matches; what it takes also goes to raw_data
RECURSIVE merge_matches(_, _, _, _, _, _)
\* the merge without the remaining_slots cut
RECURSIVE merge_matches_untruncated(_, _, _, _, _, _)
merge_matches_untruncated(found, table_matches, taxonomy, k, quick_mode, max_items) ==
    IF k > Len(taxonomy) THEN found
    ELSE LET category == taxonomy[k].name
             matches == table_matches[category]
         IN  merge_matches_untruncated(
                 [found EXCEPT !.keywords[category] = @ \o matches,
                                 !.raw_data = @ \o matches],
                 table_matches, taxonomy, k + 1, quick_mode, max_items)

merge_matches(found, table_matches, taxonomy, k, quick_mode, max_items) ==
    IF k > Len(taxonomy) THEN found
    ELSE LET category == taxonomy[k].name
             remaining_slots == Max(0, max_items - Len(found.keywords[category]))
             matches == IF quick_mode THEN Take(table_matches[category], remaining_slots)
                        ELSE table_matches[category]
         IN  merge_matches(
                 [found EXCEPT !.keywords[category] = @ \o matches,
                                 !.raw_data = @ \o matches],
                 table_matches, taxonomy, k + 1, quick_mode, max_items)

\* if table_total > 0: merge
merge_table(found, table_matches, taxonomy, quick_mode, max_items) ==
    IF table_total(table_matches, taxonomy, 1) > 0
    THEN merge_matches(found, table_matches, taxonomy, 1, quick_mode, max_items)
    ELSE found

\* as batch_rows, with the window starting one row late
batch_rows_skipping(rows, batch_size, offset) ==
    SubSeq(rows, offset + 2, Min(Len(rows), offset + 1 + batch_size))

\* as batch_rows, with the window starting one row early
batch_rows_overlapping(rows, batch_size, offset) ==
    SubSeq(rows, Max(1, offset), Min(Len(rows), offset + batch_size))

\* SELECT ... LIMIT batch_size OFFSET offset
batch_rows(rows, batch_size, offset) ==
    SubSeq(rows, offset + 1, Min(Len(rows), offset + batch_size))

\* the rows FlexibleKeywordAnalyzer._search_in_table turns into matches: the
\* rows the WHERE clause returns, up to the one that brings len(matches) to
\* max_results (at least one row when there is any)
flexible_rows(table, keywords, max_results) ==
    LET hit(row) == where_any(Take(row, Len(table.columns)), keywords)
        rows == SelectSeq(table.rows, hit)
    IN  IF Len(table.columns) = 0 \/ Len(keywords) = 0 THEN <<>>
        ELSE Take(rows, Max(1, max_results))

\* FlexibleKeywordAnalyzer._search_in_table; fail: 0 nowhere, 1 at PRAGMA
\* table_info, 2 at the SELECT, both before any match is built
flexible_search_in_table(table, keywords, max_results, fail) ==
    IF fail # 0 THEN <<>>
    ELSE LET rows == flexible_rows(table, keywords, max_results)
         IN  [j \in 1..Len(rows) |->
                 [table            |-> table.name,
                  columns          |-> table.columns,
                  data             |-> RowData(table.columns, rows[j]),
                  matched_keywords |-> matched_keywords(Take(rows[j], Len(table.columns)),
                                                        keywords, <<>>)]]

\* connect(): False when the file does not exist or sqlite3.connect raises;
\* a file that is no database opens, and fails at the first query
connect_existing(db_path) == db_path # "missing"

connect(db_path) == db_path \notin {"missing", "unopenable"}

-----------------------------------------------------------------------------
(* One run of an analyzer on a store: the inputs *)

Analyzers == {"keyword", "advanced", "optimized", "flexible", "converter", "dictionary"}

\* the file at db_path: absent, present but refused by sqlite3.connect,
\* present but no SQLite database, or a database
Stores == {"missing", "unopenable", "corrupt", "ok"}

MaxRows == 2
MaxBatch == 2
MaxResults == 2
MaxItems == 6
MaxErrors == 1

RowPool == <<
    <<TextVal("auth_token"), TextVal("Bearer abc123xyz789secretvalue")>>,
    <<TextVal("plan_type"), TextVal("pro_trial")>>,
    <<NULL, TextVal("token pro ai status blackbox limit")>>,
    <<TextVal("composer.state"), TextVal("{\"model\": \"gpt\", \"n\": [1, 2]}")>>,
    <<TextVal("theme"), TextVal("dark mode")>> >>

\* the rows of a table: rows of the pool, in the pool's order
RowChoices ==
    {s \in UNION {[1..n -> 1..Len(RowPool)] : n \in 0..MaxRows} :
        \A i \in 1..(Len(s) - 1) : s[i] < s[i + 1]}

TableOf(name, columns, choice) ==
    [name |-> name, columns |-> columns,
     rows |-> [i \in 1..Len(choice) |-> RowPool[choice[i]]]]

Databases ==
    {<<TableOf("ItemTable", <<"key", "value">>, c1),
       TableOf("settings", <<"name", "data">>, c2)>> : c1 \in RowChoices, c2 \in RowChoices}

FlexibleKeywords == <<"token", "pro">>

\* a keyword given on the command line that holds an underscore
UnderscoreKeywords == <<"dark_mode">>

\* the constructors' defaults
DefaultOptions ==
    [quick_mode |-> FALSE, max_items |-> 1000, batch_size |-> 500,
     max_results |-> 1000, keywords |-> <<>>]

\* (the advanced analyzer's quick mode is the keyword analyzer's, line for
\* line; it is run in full mode only)
OptionsOf(a) ==
    CASE a = "keyword" ->
             {[DefaultOptions EXCEPT !.quick_mode = q,
                                     !.max_items = IF q THEN MaxItems ELSE 1000] :
                 q \in BOOLEAN}
      [] a = "optimized" ->
             {[DefaultOptions EXCEPT !.batch_size = n] : n \in 1..MaxBatch}
      [] a = "flexible" ->
             {[DefaultOptions EXCEPT !.max_results = m, !.keywords = k] :
                 m \in 1..MaxResults, k \in {FlexibleKeywords, UnderscoreKeywords}}
      [] OTHER -> {DefaultOptions}

Taxonomy(a) == IF a = "optimized" THEN optimized_target_keywords ELSE target_keywords

\* self.results as the constructors leave it
EmptyResults ==
    [keywords |-> <<>>, raw_data |-> <<>>, detailed_matches |-> <<>>, total_matches |-> 0]

NoBatch == [table |-> 0, processed |-> 0, total_rows |-> 0, category_matches |-> <<>>]

NoExport == [written |-> FALSE, include_sensitive |-> FALSE, detailed_results |-> <<>>]

\* the directories of create_output_structure / create_dictionary_structure
output_structure(a, database) ==
    {"output_dir", "output_dir/reports"} \cup
    CASE a = "advanced" ->
             {"output_dir/" \o c : c \in CategoryNames(target_keywords)}
                 \cup {"output_dir/summary", "output_dir/data"}
      [] a = "converter" ->
             {"output_dir/" \o database[i].name : i \in 1..Len(database)}
                 \cup {"output_dir/summary"}
      [] OTHER ->
             {"output_dir/" \o l \o d : l \in UpperChars, d \in {"", "/words", "/phrases"}}
                 \cup {"output_dir/statistics"}

\* the files written once the tables are done
report_files(a) ==
    CASE a = "advanced" ->
             {"output_dir/summary/overall_summary.json",
              "output_dir/reports/security_report.txt",
              "output_dir/reports/detailed_report.html",
              "output_dir/tree_structure.txt"}
      [] a = "converter" ->
             {"output_dir/summary/database_summary.json",
              "output_dir/reports/export_report.html"}
      [] a = "dictionary" ->
             {"output_dir/statistics/general_statistics.json",
              "output_dir/statistics/analysis_report.txt",
              "output_dir/reports/dictionary_navigation.html"}
      [] OTHER -> {"export_file"}

-----------------------------------------------------------------------------
(* One run of an analyzer on a store: the steps *)

run_vars ==
    <<analyzer, store, db, options, pc, conn, next_table, results, batch,
      processed_rows, artifacts, exported, failed, tables_read, report, calls>>

Init ==
    /\ analyzer \in Analyzers
    /\ store \in Stores
    /\ db \in (IF store = "ok" THEN Databases ELSE {<<>>})
    /\ options \in OptionsOf(analyzer)
    /\ pc = "start"
    /\ conn = "none"
    /\ next_table = 0
    /\ results = EmptyResults
    /\ batch = NoBatch
    /\ processed_rows = 0
    /\ artifacts = {}
    /\ exported = NoExport
    /\ failed = {}
    /\ tables_read = {}
    /\ report = NoReport
    /\ calls = 0
    /\ r_columns = <<>> /\ r_row = <<>> /\ r_op = "none" /\ r_out = <<>>

\* where a table's scan may raise: nowhere (0) or at one of its n
\* statements, while the run has raised fewer than MaxErrors times
FailPoints(n) == IF Cardinality(failed) < MaxErrors THEN 0..n ELSE {0}

\* close(): if self.conn: self.conn.close()
closed(c) == IF c = "open" THEN "closed" ELSE c

\* connect(), and the return of the run when it fails
Connect ==
    /\ pc = "start"
    /\ IF connect(store)
       THEN /\ conn' = "open"
            /\ pc' = IF analyzer \in {"advanced", "converter", "dictionary"}
                     THEN "create_output" ELSE "get_tables"
       ELSE /\ conn' = closed(conn)
            /\ pc' = "done"
    /\ UNCHANGED <<analyzer, store, db, options, next_table, results, batch,
                   processed_rows, artifacts, exported, failed,
                   tables_read, report, calls, r_vars>>

\* create_output_structure / create_dictionary_structure.  The converter's
\* lists the tables after the first mkdir, and nothing catches what that
\* raises on a file that is no database.
CreateOutputStructure ==
    /\ pc = "create_output"
    /\ IF analyzer = "converter" /\ store = "corrupt"
       THEN /\ artifacts' = artifacts \cup {"output_dir"}
            /\ pc' = "crashed"
       ELSE /\ artifacts' = artifacts \cup output_structure(analyzer, db)
            /\ pc' = "get_tables"
    /\ UNCHANGED <<analyzer, store, db, options, conn, next_table, results, batch,
                   processed_rows, exported, failed, tables_read,
                   report, calls, r_vars>>

\* get_tables() and the initialisation of results['keywords']; on a file that
\* is no database the query raises, the run's except clause reports it and
\* its finally clause closes the connection
GetTables ==
    /\ pc = "get_tables"
    /\ IF store = "corrupt"
       THEN /\ pc' = "done"
            /\ conn' = closed(conn)
            /\ UNCHANGED <<next_table, results>>
       ELSE /\ next_table' = 1
            /\ pc' = IF Len(db) = 0 THEN "searched" ELSE "scan"
            /\ results' = IF analyzer \in {"keyword", "advanced", "optimized"}
                          THEN [results EXCEPT !.keywords = EmptyMatches(Taxonomy(analyzer))]
                          ELSE results
            /\ conn' = conn
    /\ calls' = calls + 1
    /\ UNCHANGED <<analyzer, store, db, options, batch, processed_rows, artifacts,
                   exported, failed, tables_read, report, r_vars>>

\* pc and next_table once table i is done
TableDone(i) ==
    /\ next_table' = i + 1
    /\ pc' = IF i >= Len(db) THEN "searched" ELSE "scan"

\* one turn of the table loop of KeywordAnalyzer.search_keywords /
\* AdvancedKeywordAnalyzer.search_keywords
SearchTable ==
    /\ pc = "scan"
    /\ analyzer \in {"keyword", "advanced"}
    /\ LET table == db[next_table]
       IN  IF options.quick_mode /\ Len(results.raw_data) >= options.max_items
           THEN /\ pc' = "searched"
                /\ UNCHANGED <<next_table, results, failed, tables_read>>
           ELSE \E fail \in FailPoints(1 + Len(target_keywords)) :
                    /\ results' = merge_table(results,
                                      search_in_table(table, options.quick_mode,
                                                      options.max_items, fail),
                                      target_keywords, options.quick_mode,
                                      options.max_items)
                    /\ failed' = IF fail # 0 THEN failed \cup {table.name} ELSE failed
                    /\ tables_read' = tables_read \cup {table.name}
                    /\ TableDone(next_table)
    /\ UNCHANGED <<analyzer, store, db, options, conn, batch, processed_rows,
                   artifacts, exported, report, calls, r_vars>>

\* OptimizedKeywordAnalyzer._search_table_optimized up to its while loop:
\* PRAGMA table_info (fail = 1) and SELECT COUNT(*) (fail = 2); when either
\* raises or the table is empty the call returns its empty category_matches
StartTable ==
    /\ pc = "scan"
    /\ analyzer = "optimized"
    /\ LET table == db[next_table]
       IN  \E fail \in FailPoints(2) :
               /\ failed' = IF fail # 0 THEN failed \cup {table.name} ELSE failed
               /\ tables_read' = tables_read \cup {table.name}
               /\ batch' = [table            |-> next_table,
                            processed        |-> 0,
                            total_rows       |-> IF fail = 0 THEN Len(table.rows) ELSE 0,
                            category_matches |-> EmptyMatches(optimized_target_keywords)]
               /\ IF fail # 0 \/ Len(table.rows) = 0
                  THEN TableDone(next_table)
                  ELSE pc' = "batch" /\ next_table' = next_table
    /\ UNCHANGED <<analyzer, store, db, options, conn, results, processed_rows,
                   artifacts, exported, report, calls, r_vars>>

\* one turn of the while loop of _search_table_optimized, and, when the loop
\* ends (all rows processed, an empty batch, or the batch query raising),
\* the return of category_matches and its merge by search_keywords_optimized
ProcessBatch ==
    /\ pc = "batch"
    /\ LET table == db[next_table]
       IN  \E fail \in FailPoints(1) :
               LET rows == IF fail # 0 THEN <<>>
                           ELSE batch_rows(table.rows, options.batch_size, batch.processed)
                   category_matches ==
                       process_batch(rows, table.columns, batch.category_matches, table.name)
                   processed == batch.processed + Len(rows)
               IN  /\ batch' = [batch EXCEPT !.category_matches = category_matches,
                                             !.processed = processed]
                   /\ failed' = IF fail # 0 THEN failed \cup {table.name} ELSE failed
                   /\ IF Len(rows) = 0 \/ processed >= batch.total_rows
                      THEN /\ results' = merge_table(results, category_matches,
                                                     optimized_target_keywords, FALSE, 0)
                           /\ TableDone(next_table)
                      ELSE UNCHANGED <<results, pc, next_table>>
    /\ UNCHANGED <<analyzer, store, db, options, conn, processed_rows, artifacts,
                   exported, tables_read, report, calls, r_vars>>

\* one turn of the table loop of FlexibleKeywordAnalyzer.search_keywords; the
\* limit is tested after the table's matches are taken
FlexibleSearchTable ==
    /\ pc = "scan"
    /\ analyzer = "flexible"
    /\ LET table == db[next_table]
       IN  \E fail \in FailPoints(2) :
               LET table_matches == flexible_search_in_table(table, options.keywords,
                                                             options.max_results, fail)
                   detailed == results.detailed_matches \o table_matches
                   last == Len(detailed) >= options.max_results \/ next_table >= Len(db)
               IN  /\ results' = [results EXCEPT
                                     !.detailed_matches = detailed,
                                     !.total_matches = IF last THEN Len(detailed) ELSE @]
                   /\ failed' = IF fail # 0 THEN failed \cup {table.name} ELSE failed
                   /\ tables_read' = tables_read \cup {table.name}
                   /\ next_table' = next_table + 1
                   /\ pc' = IF last THEN "searched" ELSE "scan"
    /\ UNCHANGED <<analyzer, store, db, options, conn, batch, processed_rows,
                   artifacts, exported, report, calls, r_vars>>

\* one table of StateVscdbConverter.run_conversion (export_table_data, then
\* the schema and summary files) or of
\* ComprehensiveDictionaryAnalyzer.extract_text_content; the table's SELECT
\* may raise (fail = 1), which export_table_data and the loop's own except
\* clause report
ProcessTable ==
    /\ pc = "scan"
    /\ analyzer \in {"converter", "dictionary"}
    /\ LET table == db[next_table]
       IN  \E fail \in FailPoints(1) :
               /\ failed' = IF fail # 0 THEN failed \cup {table.name} ELSE failed
               /\ tables_read' = tables_read \cup {table.name}
               /\ processed_rows' = IF fail = 0 THEN processed_rows + Len(table.rows)
                                    ELSE processed_rows
               /\ artifacts' =
                      IF analyzer = "converter"
                      THEN artifacts
                           \cup (IF fail = 0
                                 THEN {"output_dir/" \o table.name \o "/data.json"} ELSE {})
                           \cup {"output_dir/" \o table.name \o "/schema.json",
                                 "output_dir/" \o table.name \o "/summary.txt"}
                      ELSE artifacts
               /\ TableDone(next_table)
    /\ UNCHANGED <<analyzer, store, db, options, conn, results, batch, exported,
                    report, calls, r_vars>>

\* the end of main() in keyword_analyzer.py and keyword_analyzer_optimized.py:
\* return when nothing was found, else the report, the export the user picks
\* (filtered, full or none), and the finally clause
ExportResults ==
    /\ pc = "searched"
    /\ analyzer \in {"keyword", "optimized"}
    /\ report' = IF Len(results.raw_data) = 0 THEN report
                 ELSE summary_of(analyzer, results)
    /\ IF Len(results.raw_data) = 0
       THEN UNCHANGED <<exported, artifacts, results>>
       ELSE \E choice \in {"filtered", "full", "none"} :
               IF choice = "none"
               THEN UNCHANGED <<exported, artifacts, results>>
               ELSE /\ results' = results_after_export(results, choice = "full")
                    /\ exported' =
                           [written |-> TRUE,
                            include_sensitive |-> (choice = "full"),
                            detailed_results |->
                                IF analyzer = "keyword"
                                THEN export_results(results.keywords, choice = "full")
                                ELSE export_comprehensive_results(results.keywords,
                                                                  choice = "full")]
                    /\ artifacts' = artifacts \cup report_files(analyzer)
    /\ pc' = "done"
    /\ conn' = closed(conn)
    /\ UNCHANGED <<analyzer, store, db, options, next_table, batch,
                   processed_rows, failed, tables_read, calls, r_vars>>

\* the rest of AdvancedKeywordAnalyzer.run_analysis: return when nothing was
\* found, else save_category_files and the reports, and the finally clause
SaveCategoryFiles ==
    /\ pc = "searched"
    /\ analyzer = "advanced"
    /\ report' = IF Len(results.raw_data) = 0 THEN report
                 ELSE summary_of(analyzer, results)
    /\ IF Len(results.raw_data) = 0
       THEN UNCHANGED <<exported, artifacts, results>>
       ELSE /\ results' = results_after_save(results)
            /\ exported' = [written |-> TRUE,
                            include_sensitive |-> FALSE,
                            detailed_results |-> save_category_files(results.keywords)]
            /\ artifacts' = artifacts
                   \cup {"output_dir/" \o c \o "/" \o c \o "_results.json" :
                            c \in with_matches(results.keywords)}
                   \cup report_files(analyzer)
    /\ pc' = "done"
    /\ conn' = closed(conn)
    /\ UNCHANGED <<analyzer, store, db, options, next_table, batch,
                   processed_rows, failed, tables_read, calls, r_vars>>

\* the end of the flexible analyzer's main() (export_results), of
\* run_conversion and of run_comprehensive_analysis: the report files, then
\* close()
FinishRun ==
    /\ pc = "searched"
    /\ analyzer \in {"flexible", "converter", "dictionary"}
    /\ artifacts' = artifacts \cup report_files(analyzer)
    /\ pc' = "done"
    /\ conn' = closed(conn)
    /\ UNCHANGED <<analyzer, store, db, options, next_table, results, batch,
                   processed_rows, exported, failed, tables_read,
                   report, calls, r_vars>>

\* a call of generate_security_report, generate_comprehensive_report or
\* create_overall_summary on the object once its scan is over, whatever the
\* scan found
GenerateReport ==
    /\ pc = "searched"
    /\ analyzer \in {"keyword", "advanced", "optimized"}
    /\ report = NoReport
    /\ report' = summary_of(analyzer, results)
    /\ UNCHANGED <<analyzer, store, db, options, pc, conn, next_table, results, batch,
                   processed_rows, artifacts, exported, failed, tables_read, calls, r_vars>>

Next ==
    \/ Connect
    \/ CreateOutputStructure
    \/ GetTables
    \/ SearchTable
    \/ StartTable
    \/ ProcessBatch
    \/ FlexibleSearchTable
    \/ ProcessTable
    \/ ExportResults
    \/ SaveCategoryFiles
    \/ FinishRun
    \/ GenerateReport

Spec == Init /\ [][Next]_vars

-----------------------------------------------------------------------------
(* Several search calls on one object *)

\* most search calls made on one object
MaxCalls == 2

\* a further call of search_keywords / search_keywords_optimized on the object
\* whose last call has returned: the call starts again at get_tables(), with
\* self.results as the last call left it
SearchAgain ==
    /\ pc = "searched"
    /\ analyzer \in {"keyword", "advanced", "optimized"}
    /\ calls < MaxCalls
    /\ pc' = "get_tables"
    /\ UNCHANGED <<analyzer, store, db, options, conn, next_table, results, batch,
                   processed_rows, artifacts, exported, failed, tables_read,
                   report, calls, r_vars>>

\* the objects that classify what they find, on a store that opens and
\* whose first table holds one row at most
AgainInit ==
    /\ Init
    /\ analyzer \in {"keyword", "advanced", "optimized"}
    /\ store = "ok"
    /\ Len(db[1].rows) <= 1

AgainNext ==
    \/ Connect
    \/ CreateOutputStructure
    \/ GetTables
    \/ SearchTable
    \/ StartTable
    \/ ProcessBatch
    \/ SearchAgain

SpecAgain == AgainInit /\ [][AgainNext]_vars

-----------------------------------------------------------------------------
(* The cursor analyzer *)

\* CursorAnalyzer.categories, in the order of the dict
cursor_categories == <<
    [name |-> "settings",    keywords |-> <<"setting", "config", "preference", "option">>],
    [name |-> "ui",          keywords |-> <<"workbench", "view", "panel", "sidebar", "explorer">>],
    [name |-> "editor",      keywords |-> <<"editor", "text", "file", "document">>],
    [name |-> "extension",   keywords |-> <<"extension", "plugin", "addon">>],
    [name |-> "history",     keywords |-> <<"history", "recent", "opened", "path">>],
    [name |-> "theme",       keywords |-> <<"theme", "color", "appearance">>],
    [name |-> "key_binding", keywords |-> <<"keybinding", "shortcut", "key">>],
    [name |-> "window",      keywords |-> <<"window", "layout", "position">>],
    [name |-> "debug",       keywords |-> <<"debug", "debugger", "breakpoint">>],
    [name |-> "git",         keywords |-> <<"git", "scm", "source">>],
    [name |-> "search",      keywords |-> <<"search", "find", "replace">>],
    [name |-> "terminal",    keywords |-> <<"terminal", "shell", "command">>],
    [name |-> "other",       keywords |-> <<>>] >>

\* self.results of a CursorAnalyzer as the constructor leaves it; a category
\* the defaultdict has no key for has the empty list
EmptyCursorResults ==
    [total_matches |-> 0,
     categories    |-> [c \in {cursor_categories[k].name : k \in 1..Len(cursor_categories)}
                           |-> <<>>],
     raw_data      |-> <<>>]

\* CursorAnalyzer._search_in_table: the rows with LOWER(col) LIKE '%cursor%'
\* in some column; PRAGMA table_info (fail = 1) or the SELECT (fail = 2)
\* raising leaves matches empty
cursor_search_in_table(table, fail) ==
    LET hit(row) == where_any(Take(row, Len(table.columns)), <<"cursor">>)
        rows == IF fail # 0 THEN <<>> ELSE SelectSeq(table.rows, hit)
    IN  [i \in 1..Len(rows) |->
            [table |-> table.name, columns |-> table.columns,
             data |-> RowData(table.columns, rows[i])]]

\* the category loop of categorize_results from the k-th category on:
\* 'other' is passed over, the first category with a keyword in all_text
\* takes the match, and 'other' takes it when none does
RECURSIVE cursor_category(_, _)
cursor_category(text, k) ==
    IF k > Len(cursor_categories) THEN "other"
    ELSE IF cursor_categories[k].name # "other"
            /\ AnyIn(cursor_categories[k].keywords, text)
         THEN cursor_categories[k].name
         ELSE cursor_category(text, k + 1)

\* CursorAnalyzer.categorize_results, from the i-th match of raw_data on
RECURSIVE categorize_results(_, _)
categorize_results(found, i) ==
    IF i > Len(found.raw_data) THEN found
    ELSE LET match == found.raw_data[i]
             category == cursor_category(lower(all_text(match.data)), 1)
         IN  categorize_results(
                 [found EXCEPT !.categories[category] = Append(@, match)], i + 1)

\* rows of the store: the first four hold 'cursor' in a column
CursorRowPool == <<
    <<TextVal("cursor"), IntVal(0)>>,
    <<TextVal("cursor.editor.view"), NULL>>,
    <<TextVal("Cursor Theme"), TextVal("dark")>>,
    <<TextVal("cursorBlink"), TextVal("")>>,
    <<TextVal("zoom"), TextVal("1")>> >>

CursorRowChoices ==
    {s \in UNION {[1..n -> 1..Len(CursorRowPool)] : n \in 0..MaxRows} :
        \A i \in 1..(Len(s) - 1) : s[i] < s[i + 1]}

CursorDatabases ==
    {<<[name |-> "ItemTable", columns |-> <<"id", "option">>,
        rows |-> [i \in 1..Len(c1) |-> CursorRowPool[c1[i]]]],
       [name |-> "cursorDiskKV", columns |-> <<"id", "data">>,
        rows |-> [i \in 1..Len(c2) |-> CursorRowPool[c2[i]]]]>> :
        c1 \in CursorRowChoices, c2 \in CursorRowChoices}

\* CursorAnalyzer(db_path) on a store that opens
CursorInit ==
    /\ analyzer = "cursor"
    /\ store = "ok"
    /\ db \in CursorDatabases
    /\ options = DefaultOptions
    /\ pc = "start"
    /\ conn = "none"
    /\ next_table = 0
    /\ results = EmptyCursorResults
    /\ batch = NoBatch
    /\ processed_rows = 0
    /\ artifacts = {}
    /\ exported = NoExport
    /\ failed = {}
    /\ tables_read = {}
    /\ report = NoReport
    /\ calls = 0
    /\ r_columns = <<>> /\ r_row = <<>> /\ r_op = "none" /\ r_out = <<>>

\* one turn of the table loop of search_cursor_references; processed_rows
\* holds its local total_matches, stored in self.results after the last
\* table
CursorSearchTable ==
    /\ pc = "scan"
    /\ analyzer = "cursor"
    /\ LET table == db[next_table]
       IN  \E fail \in FailPoints(2) :
               LET matches == cursor_search_in_table(table, fail)
                   total_matches == processed_rows + Len(matches)
               IN  /\ processed_rows' = total_matches
                   /\ results' = [results EXCEPT
                                     !.raw_data = @ \o matches,
                                     !.total_matches = IF next_table >= Len(db)
                                                       THEN total_matches ELSE @]
                   /\ failed' = IF fail # 0 THEN failed \cup {table.name} ELSE failed
                   /\ tables_read' = tables_read \cup {table.name}
                   /\ TableDone(next_table)
    /\ UNCHANGED <<analyzer, store, db, options, conn, batch, artifacts, exported,
                   report, calls, r_vars>>

\* the rest of main() in cursor_analyzer.py: return when nothing was found,
\* else categorize_results and the displays, which only read self.results,
\* and the finally clause
CategorizeResults ==
    /\ pc = "searched"
    /\ analyzer = "cursor"
    /\ results' = IF results.total_matches = 0 THEN results
                  ELSE categorize_results(results, 1)
    /\ pc' = "done"
    /\ conn' = closed(conn)
    /\ UNCHANGED <<analyzer, store, db, options, next_table, batch, processed_rows,
                   artifacts, exported, failed, tables_read, report, calls, r_vars>>

CursorNext ==
    \/ Connect
    \/ GetTables
    \/ CursorSearchTable
    \/ CategorizeResults

SpecCursor == CursorInit /\ [][CursorNext]_vars

-----------------------------------------------------------------------------
(* Quick mode over many tables *)

\* --quick with a limit that leaves two rows to each query
QuickItems == 12

\* the tables of the store
QuickTables == 7

\* rows that only the authentication keywords match
QuickRowPool == <<
    <<TextVal("auth_token"), TextVal("Bearer abc123xyz789secretvalue")>>,
    <<TextVal("login"), TextVal("yes")>>,
    <<TextVal("session"), TextVal("s1")>> >>

QuickTableNames == <<"t1", "t2", "t3", "t4", "t5", "t6", "t7">>

\* the tables that hold the first row of the pool or all three; the others
\* hold all three
QuickVaried == 3

QuickDatabases ==
    {[i \in 1..QuickTables |->
         [name |-> QuickTableNames[i], columns |-> <<"key", "value">>,
          rows |-> SubSeq(QuickRowPool, 1,
                          IF i <= QuickVaried THEN n[i] ELSE Len(QuickRowPool))]] :
        n \in [1..QuickVaried -> {1, Len(QuickRowPool)}]}

\* KeywordAnalyzer(db_path, quick_mode=True, max_items=QuickItems), and the
\* advanced analyzer likewise
QuickInit ==
    /\ analyzer \in {"keyword", "advanced"}
    /\ store = "ok"
    /\ db \in QuickDatabases
    /\ options = [DefaultOptions EXCEPT !.quick_mode = TRUE, !.max_items = QuickItems]
    /\ pc = "start"
    /\ conn = "none"
    /\ next_table = 0
    /\ results = EmptyResults
    /\ batch = NoBatch
    /\ processed_rows = 0
    /\ artifacts = {}
    /\ exported = NoExport
    /\ failed = {}
    /\ tables_read = {}
    /\ report = NoReport
    /\ calls = 0
    /\ r_columns = <<>> /\ r_row = <<>> /\ r_op = "none" /\ r_out = <<>>

QuickNext ==
    \/ Connect
    \/ CreateOutputStructure
    \/ GetTables
    \/ SearchTable

SpecQuick == QuickInit /\ [][QuickNext]_vars

-----------------------------------------------------------------------------
(* One record through the pure functions: the inputs *)

\* longest filler put before a word of a generated text value
MaxFill == 22

\* n characters of filler that holds no keyword
RECURSIVE Filler(_)
Filler(n) ==
    IF n <= 26 THEN SubSeq(LowerAlphabet, 1, n)
    ELSE LowerAlphabet \o Filler(n - 26)

Words == {"", "to", "Token", "SECRET", "email", "Pro Plan", "Auth"}

GeneratedTexts == {Filler(n) \o w : n \in 0..MaxFill, w \in Words}

\* a value longer than the slice of _determine_sensitivity_fast, with a
\* category keyword at its start and a high-sensitivity keyword at its end
LongTexts ==
    {"pro " \o Filler(DataStrLimit) \o " secret",
     "pro " \o Filler(DataStrLimit) \o " token"}

FirstValues ==
    {NULL, IntVal(0), IntVal(42), IntVal(0 - 2147483647), BytesVal("Token"), BytesVal("")}
    \cup {TextVal(s) : s \in GeneratedTexts \cup LongTexts}

SecondValues ==
    {NULL, TextVal(""), TextVal("ken"), TextVal("Secret key"), TextVal("pro trial"),
     TextVal("auth token"), IntVal(7)}

ColumnSchemas ==
    {<<"key", "value">>, <<"name", "data">>, <<"AuthToken", "note">>, <<"id", "Password">>}

RecordTable == [name |-> "ItemTable", columns |-> r_columns, rows |-> <<r_row>>]

RecordInit ==
    /\ r_columns \in ColumnSchemas
    /\ r_row \in {<<a, b>> : a \in FirstValues, b \in SecondValues}
    /\ r_op = "none"
    /\ r_out = <<>>
    /\ analyzer = "keyword" /\ store = "ok" /\ db = <<>> /\ options = DefaultOptions
    /\ pc = "start" /\ conn = "none" /\ next_table = 0 /\ results = EmptyResults
    /\ batch = NoBatch /\ processed_rows = 0 /\ artifacts = {}
    /\ exported = NoExport
    /\ failed = {} /\ tables_read = {} /\ report = NoReport /\ calls = 0

\* OptimizedKeywordAnalyzer._process_batch on the one-row batch
ApplyProcessBatch ==
    /\ r_op = "none"
    /\ r_op' = "process_batch"
    /\ r_out' = process_batch(<<r_row>>, r_columns,
                              EmptyMatches(optimized_target_keywords), "ItemTable")
    /\ UNCHANGED <<r_columns, r_row, run_vars>>

\* KeywordAnalyzer._search_in_table on the one-row table, full mode, no error
ApplySearchInTable ==
    /\ r_op = "none"
    /\ r_op' = "search_in_table"
    /\ r_out' = search_in_table(RecordTable, FALSE, 1000, 0)
    /\ UNCHANGED <<r_columns, r_row, run_vars>>

\* AdvancedKeywordAnalyzer._censor_sensitive_data on the record
ApplyCensor ==
    /\ r_op = "none"
    /\ r_op' = "censor"
    /\ r_out' = censor_sensitive_data(RowData(r_columns, r_row))
    /\ UNCHANGED <<r_columns, r_row, run_vars>>

RecordNext == ApplyProcessBatch \/ ApplySearchInTable \/ ApplyCensor

SpecRecord == RecordInit /\ [][RecordNext]_vars

-----------------------------------------------------------------------------
(* Properties of the classifier and the redactor on one record *)

\* the high-sensitivity keywords
HighKeywords == {"token", "password", "key", "secret", "credential"}

\* the text of a field value that is not null
FieldText(value) ==
    CASE value.t = "text"  -> value.s
      [] value.t = "bytes" -> value.s
      [] value.t = "int"   -> Str(value)

NonNull(row) == SelectSeq(row, LAMBDA v : v.t # "null")

\* some keyword is a case-insensitive substring of one field value
KeywordInSomeField(row, keywords) ==
    \E i \in 1..Len(row) : \E k \in 1..Len(keywords) :
        /\ row[i].t # "null"
        /\ Contains(lower(FieldText(row[i])), lower(keywords[k]))

RECURSIVE Concatenation(_)
Concatenation(values) ==
    IF Len(values) = 0 THEN ""
    ELSE FieldText(Head(values)) \o Concatenation(Tail(values))

\* some keyword is a case-insensitive substring of the concatenation of the
\* non-null field values
KeywordInConcatenation(row, keywords) ==
    LET text == lower(Concatenation(NonNull(row)))
    IN  \E k \in 1..Len(keywords) : Contains(text, lower(keywords[k]))

Classified == r_op \in {"process_batch", "search_in_table"}

TaxonomyUsed ==
    IF r_op = "process_batch" THEN optimized_target_keywords ELSE target_keywords

\* the Matches the classifier returned for the record, of every category
RecordMatches ==
    UNION {{r_out[c][j] : j \in 1..Len(r_out[c])} : c \in DOMAIN r_out}

\* C1 (as amended): for the record of a table scanned in full and without
\* error, and every category, the classifier emits a Match (one, carrying the
\* record) if and only if some keyword of the category is a case-insensitive
\* substring of at least one non-null field value.
C1_MatchIffKeywordInField ==
    Classified =>
        \A i \in 1..Len(TaxonomyUsed) :
            LET config == TaxonomyUsed[i]
                found == r_out[config.name]
            IN  /\ Len(found) = (IF KeywordInSomeField(r_row, config.keywords) THEN 1 ELSE 0)
                /\ \A j \in 1..Len(found) :
                       /\ found[j].category = config.name
                       /\ found[j].data = RowData(r_columns, r_row)

\* C1 as stated: ... if and only if some keyword of the category is a
\* case-insensitive substring of the concatenation of the non-null field values.
C1_MatchIffKeywordInConcatenation ==
    Classified =>
        \A i \in 1..Len(TaxonomyUsed) :
            LET config == TaxonomyUsed[i]
            IN  (Len(r_out[config.name]) >= 1)
                    <=> KeywordInConcatenation(r_row, config.keywords)

\* a field in capitals is matched by its lower-case keyword, another category
\* is not matched
C1_Witness ==
    /\ Classified
    /\ r_row[1] = TextVal("abcToken") /\ r_row[2] = TextVal("pro trial")
    /\ Len(r_out["authentication"]) = 1
    /\ Len(r_out["subscription"]) = 1
    /\ Len(r_out["usage_limits"]) = 0

\* the record's field values hold a high-sensitivity keyword
HighKeywordInValues(row) ==
    \E i \in 1..Len(row) : \E kw \in HighKeywords :
        /\ row[i].t # "null"
        /\ Contains(lower(FieldText(row[i])), kw)

\* C2: for every record whose field values hold a high-sensitivity keyword
\* anywhere, every Match produced from the record has sensitivity high.
C2_HighKeywordGivesHigh ==
    (Classified /\ HighKeywordInValues(r_row)) =>
        \A m \in RecordMatches : m.sensitivity = "high"

\* the column names of the record that hold a high-sensitivity keyword,
\* case-insensitively
HighKeywordInName(name) == \E kw \in HighKeywords : Contains(lower(name), kw)

Markers == {"***[CENSORED]***", "***[SENSITIVE DATA CENSORED]***"}

Masked(i) == r_row[i].t # "null" /\ HighKeywordInName(r_columns[i])

\* C4: the redactor replaces by a masked representation the value of every
\* non-null field whose column name holds, case-insensitively, a
\* high-sensitivity keyword, whatever the value's type, and the output has
\* exactly the column names of the input, in their order.
C4_SensitiveColumnsMasked ==
    r_op = "censor" =>
        /\ Len(r_out) = Len(r_columns)
        /\ \A i \in 1..Len(r_columns) :
               /\ r_out[i].key = r_columns[i]
               /\ Masked(i) =>
                      /\ r_out[i].value.t = "text"
                      /\ \E m \in Markers : Contains(r_out[i].value.s, m)

\* a number under a column named in capitals is masked
C4_Witness ==
    /\ r_op = "censor"
    /\ r_columns = <<"id", "Password">> /\ r_row[2] = IntVal(7)
    /\ r_out[2].value = TextVal("***[CENSORED]***")
    /\ r_out[1].value = r_row[1]

\* C5: a masked field with string form v becomes: the first 10 characters of
\* v, a marker and the last 5 characters of v when len(v) > 20; the first 5
\* characters of v and a marker when 10 < len(v) <= 20; a marker alone when
\* len(v) <= 10.
C5_LengthBands ==
    r_op = "censor" =>
        \A i \in 1..Len(r_columns) :
            Masked(i) =>
                LET v == Str(r_row[i])
                    out == r_out[i].value.s
                IN  /\ Len(v) > 20 =>
                           /\ Len(out) > 15
                           /\ Take(out, 10) = Take(v, 10)
                           /\ TakeLast(out, 5) = TakeLast(v, 5)
                           /\ SubSeq(out, 11, Len(out) - 5) \in Markers
                    /\ (Len(v) > 10 /\ Len(v) <= 20) =>
                           /\ Len(out) > 5
                           /\ Take(out, 5) = Take(v, 5)
                           /\ SubSeq(out, 6, Len(out)) \in Markers
                    /\ Len(v) <= 10 => out \in Markers

\* a value of exactly 20 characters keeps its first 5 only
C5_Witness ==
    /\ r_op = "censor"
    /\ r_columns = <<"key", "value">>
    /\ r_row[1] = TextVal(Filler(20))
    /\ r_out[1].value = TextVal("abcde***[CENSORED]***")

\* C6: the redactor passes through every field not subject to masking: a null
\* stays null whatever its column name, a field whose column name holds no
\* high-sensitivity keyword keeps its value, and a record none of whose column
\* names holds one is returned equal to the input.
C6_OthersUnchanged ==
    r_op = "censor" =>
        /\ \A i \in 1..Len(r_columns) :
               /\ r_row[i] = NULL => r_out[i].value = NULL
               /\ ~HighKeywordInName(r_columns[i]) => r_out[i].value = r_row[i]
        /\ (\A i \in 1..Len(r_columns) : ~HighKeywordInName(r_columns[i]))
               => r_out = RowData(r_columns, r_row)

\* a null under a sensitive column name stays null, and a value that holds a
\* keyword under an innocuous column name is kept
C6_Witness ==
    /\ r_op = "censor"
    /\ r_columns = <<"id", "Password">>
    /\ r_row[1] = TextVal("abcToken") /\ r_row[2] = NULL
    /\ r_out[1].value = TextVal("abcToken") /\ r_out[2].value = NULL

-----------------------------------------------------------------------------
(* Properties of a run *)

\* the exported value is the original one, or the document json.loads reads
\* from the original text
SameValue(out, original) ==
    \/ out = original
    \/ /\ out.t = "json" /\ original.t = "text"
       /\ json_loads(original.s).ok
       /\ json_loads(original.s).doc = out.doc

\* the entry carries all the columns of the match, with their values
Preserved(entry, match) ==
    /\ "data" \in DOMAIN entry
    /\ Len(entry.data) = Len(match.data)
    /\ \A i \in 1..Len(match.data) :
           /\ entry.data[i].key = match.data[i].key
           /\ SameValue(entry.data[i].value, match.data[i].value)

\* C3: in every export, a Match's record data is redacted or filtered if and
\* only if the Match is high-sensitivity and the include-sensitive flag is
\* false; with the flag true every Match's data is exported with all its
\* original columns and values.
C3_RedactedIffHighAndFlagOff ==
    exported.written =>
        \A c \in DOMAIN exported.detailed_results :
            \A j \in 1..Len(exported.detailed_results[c]) :
                LET entry == exported.detailed_results[c][j]
                    match == results.keywords[c][j]
                IN  /\ ~Preserved(entry, match)
                           <=> (match.sensitivity = "high" /\ ~exported.include_sensitive)
                    /\ exported.include_sensitive => Preserved(entry, match)

\* classifying all the rows of a table in a single pass
SinglePass(table) ==
    process_batch(table.rows, table.columns,
                  EmptyMatches(optimized_target_keywords), table.name)

\* the single-pass matches of category c over the tables from the i-th on
RECURSIVE SinglePassFrom(_, _, _)
SinglePassFrom(database, i, c) ==
    IF i > Len(database) THEN <<>>
    ELSE SinglePass(database[i])[c] \o SinglePassFrom(database, i + 1, c)

TierCount(matches, tier) ==
    Cardinality({j \in 1..Len(matches) : matches[j].sensitivity = tier})

Tiers == {"high", "medium", "low"}

\* C7: for every table content and every batch size N >= 1, the batched scan
\* yields the same per-category Match lists, in the same order, and the same
\* per-category and per-tier counts as classifying all rows of the table in a
\* single pass: after every batch the lists are those of a single pass over
\* the rows fetched so far, at the end of the table those of a single pass
\* over the table, and at the end of the scan the result holds, per
\* category, the single-pass lists of the tables one after the other.
C7_BatchedScanEqualsSinglePass ==
    /\ (analyzer = "optimized" /\ batch.table # 0 /\ db[batch.table].name \notin failed) =>
           LET table == db[batch.table]
               whole == SinglePass(table)
               sofar == SinglePass([table EXCEPT !.rows = SubSeq(@, 1, batch.processed)])
           IN  /\ batch.processed <= Len(table.rows)
               /\ batch.category_matches = sofar
               /\ (pc # "batch" \/ next_table # batch.table) =>
                      /\ batch.processed = Len(table.rows)
                      /\ batch.category_matches = whole
                      /\ \A c \in DOMAIN whole :
                             /\ Len(batch.category_matches[c]) = Len(whole[c])
                             /\ \A tier \in Tiers :
                                    TierCount(batch.category_matches[c], tier)
                                        = TierCount(whole[c], tier)
    /\ (analyzer = "optimized" /\ store = "ok" /\ failed = {} /\ pc = "searched") =>
           \A c \in CategoryNames(optimized_target_keywords) :
               results.keywords[c] = SinglePassFrom(db, 1, c)

\* a table of two matching rows scanned in two batches of one row
C7_Witness ==
    /\ analyzer = "optimized" /\ options.batch_size = 1
    /\ pc = "searched" /\ failed = {}
    /\ batch.table = 2 /\ batch.processed = 2
    /\ Len(batch.category_matches["authentication"]) = 2
    /\ Len(results.keywords["authentication"]) >= 3

\* C8: in a capped scan (flexible analyzer with max_results = M >= 1, keyword
\* analyzer in quick mode with max_items = M) the total number of Matches
\* accepted into the result never exceeds M after any sequence of tables.
C8_TotalWithinCap ==
    /\ analyzer = "flexible" => Len(results.detailed_matches) <= options.max_results
    /\ (analyzer = "keyword" /\ options.quick_mode) =>
           Len(results.raw_data) <= options.max_items

\* the scan of the given tables with no error, from the result found
RECURSIVE ScanTables(_, _, _, _)
ScanTables(a, tables, opts, found) ==
    IF Len(tables) = 0 THEN found
    ELSE IF a = "optimized"
    THEN ScanTables(a, Tail(tables), opts,
                    merge_table(found, SinglePass(Head(tables)),
                                optimized_target_keywords, FALSE, 0))
    ELSE IF opts.quick_mode /\ Len(found.raw_data) >= opts.max_items THEN found
    ELSE ScanTables(a, Tail(tables), opts,
                    merge_table(found,
                                search_in_table(Head(tables), opts.quick_mode,
                                                opts.max_items, 0),
                                target_keywords, opts.quick_mode, opts.max_items))

NotFailed(table) == table.name \notin failed

\* C9: if scanning one table raises an error, that table contributes no
\* Matches to the result, and every remaining table is still scanned with
\* the same outcome as if the failing table were absent.
C9_FailedTableContributesNothing ==
    analyzer \in {"keyword", "optimized"} =>
        /\ \A i \in 1..Len(results.raw_data) : results.raw_data[i].table \notin failed
        /\ (store = "ok" /\ pc \in {"searched", "done"}) =>
               results.keywords =
                   ScanTables(analyzer, SelectSeq(db, NotFailed), options,
                              [EmptyResults EXCEPT
                                  !.keywords = EmptyMatches(Taxonomy(analyzer))]).keywords

MatchesOf(name, c) ==
    SelectSeq(results.keywords[c], LAMBDA m : m.table = name)

ClassifyingAnalyzers == {"keyword", "advanced", "optimized"}

\* C11: scanning a two-row table with columns (key, value), row1 =
\* ("auth_token", "Bearer abc123xyz789secretvalue") and row2 = ("plan_type",
\* "pro_trial"), yields one Match of category authentication with sensitivity
\* high for row1, one Match of category subscription with sensitivity low for
\* row2, and no Match of another category.
C11_TwoRowScenario ==
    (/\ analyzer \in ClassifyingAnalyzers
     /\ store = "ok" /\ pc \in {"searched", "done"} /\ failed = {}
     /\ db[1].columns = <<"key", "value">>
     /\ db[1].rows = <<RowPool[1], RowPool[2]>>) =>
        LET auth == MatchesOf(db[1].name, "authentication")
            subs == MatchesOf(db[1].name, "subscription")
        IN  /\ Len(auth) = 1
            /\ auth[1].data = RowData(db[1].columns, RowPool[1])
            /\ auth[1].sensitivity = "high"
            /\ Len(subs) = 1
            /\ subs[1].data = RowData(db[1].columns, RowPool[2])
            /\ subs[1].sensitivity = "low"
            /\ \A c \in DOMAIN results.keywords \ {"authentication", "subscription"} :
                   Len(MatchesOf(db[1].name, c)) = 0

-----------------------------------------------------------------------------
(* Further properties of the classifier on one record *)

\* C12: sensitivity is a function of the record's content alone: any two
\* Matches produced from the same record, for different categories, carry the
\* same sensitivity tier.
C12_SameTierForEveryCategory ==
    Classified =>
        \A m1, m2 \in RecordMatches : m1.sensitivity = m2.sensitivity

\* the keyword is in the text the classifier reads from the i-th field
InField(row, i, keyword) ==
    Truthy(row[i]) /\ Contains(lower(Str(row[i])), lower(keyword))

\* the first field of the record that holds the keyword
FirstField(row, keyword) ==
    CHOOSE i \in 1..Len(row) :
        InField(row, i, keyword) /\ \A j \in 1..(i - 1) : ~InField(row, j, keyword)

\* the place of the keyword in the category's declared list
DeclaredAt(keywords, keyword) == CHOOSE k \in 1..Len(keywords) : keywords[k] = keyword

\* C14 (as amended): within every Match, matched_keywords is ordered by first
\* occurrence: a keyword found in an earlier field of the record comes before
\* a keyword found only in later fields, and keywords first found in the same
\* field follow the taxonomy's declaration order of the category's keywords.
C14_FieldThenDeclarationOrder ==
    Classified =>
        \A m \in RecordMatches :
            LET keywords == TaxonomyUsed[CategoryIndex(TaxonomyUsed, m.category)].keywords
                found == m.matched_keywords
            IN  \A p, q \in 1..Len(found) :
                    p < q =>
                        LET fp == FirstField(r_row, found[p])
                            fq == FirstField(r_row, found[q])
                        IN  \/ fp < fq
                            \/ /\ fp = fq
                               /\ DeclaredAt(keywords, found[p]) < DeclaredAt(keywords, found[q])

\* C14 as stated: within every Match, matched_keywords is a subsequence of the
\* category's declared keyword list, whatever the order of the record's
\* fields in which the keywords occur.
C14_DeclarationOrder ==
    Classified =>
        \A m \in RecordMatches :
            LET keywords == TaxonomyUsed[CategoryIndex(TaxonomyUsed, m.category)].keywords
                found == m.matched_keywords
            IN  \A p, q \in 1..Len(found) :
                    p < q => DeclaredAt(keywords, found[p]) < DeclaredAt(keywords, found[q])

\* "auth" found in the first field comes before "token" found in the second,
\* though the taxonomy declares "token" first
C14_Witness ==
    /\ Classified
    /\ r_row = <<TextVal("Auth"), TextVal("auth token")>>
    /\ Len(r_out["authentication"]) = 1
    /\ r_out["authentication"][1].matched_keywords = <<"auth", "token">>

MediumKeywords == {"userid", "email", "api", "auth"}

\* the record's text, column names and non-null values, lowercased, holds one
\* of the keywords
InRecordText(columns, row, keywords) ==
    \E kw \in keywords :
        \/ \E i \in 1..Len(columns) : Contains(lower(columns[i]), kw)
        \/ \E i \in 1..Len(row) :
               row[i].t # "null" /\ Contains(lower(FieldText(row[i])), kw)

\* C16: for every Match whose record text (column names and non-null values,
\* lowercased) holds no high-sensitivity keyword, the sensitivity is medium if
\* the text holds any of userid, email, api or auth, and low otherwise; the
\* sensitivity is always one of high, medium, low.
C16_MediumThenLow ==
    Classified =>
        \A m \in RecordMatches :
            /\ m.sensitivity \in Tiers
            /\ ~InRecordText(r_columns, r_row, HighKeywords) =>
                   m.sensitivity = (IF InRecordText(r_columns, r_row, MediumKeywords)
                                    THEN "medium" ELSE "low")

-----------------------------------------------------------------------------
(* Further properties of a run *)

\* the keywords that are a case-insensitive substring of at least one
\* non-null field value of the record
FoundKeywords(data, keywords) ==
    {keywords[k] : k \in {n \in 1..Len(keywords) :
        \E i \in 1..Len(data) :
            /\ data[i].value.t # "null"
            /\ Contains(lower(FieldText(data[i].value)), lower(keywords[n]))}}

\* matched_keywords lists exactly those keywords, each once, and is not empty
ExactKeywords(m, keywords) ==
    /\ Len(m.matched_keywords) > 0
    /\ \A p, q \in 1..Len(m.matched_keywords) :
           m.matched_keywords[p] = m.matched_keywords[q] => p = q
    /\ {m.matched_keywords[p] : p \in 1..Len(m.matched_keywords)}
           = FoundKeywords(m.data, keywords)

\* C13: the matched_keywords of a Match for category C contains exactly those
\* keywords of C (for the flexible analyzer, of the keywords searched) that
\* are case-insensitive substrings of at least one non-null field value of
\* the record, each listed once: it is never empty, never contains a keyword
\* of another category, and never omits a keyword that occurs in some field.
C13_MatchedKeywordsExact ==
    /\ analyzer \in ClassifyingAnalyzers =>
           \A c \in DOMAIN results.keywords :
               \A j \in 1..Len(results.keywords[c]) :
                   ExactKeywords(results.keywords[c][j],
                       Taxonomy(analyzer)[CategoryIndex(Taxonomy(analyzer), c)].keywords)
    /\ analyzer = "flexible" =>
           \A j \in 1..Len(results.detailed_matches) :
               ExactKeywords(results.detailed_matches[j], options.keywords)

\* the places in results['keywords'][c] of the Matches made from the row
RowMatches(table, row, c) ==
    LET data == RowData(table.columns, row)
    IN  {j \in 1..Len(results.keywords[c]) :
            /\ results.keywords[c][j].table = table.name
            /\ results.keywords[c][j].data = data}

\* the row matches the category: one of its keywords is in one of its fields
RowMatchesCategory(row, c) ==
    LET keywords == Taxonomy(analyzer)[CategoryIndex(Taxonomy(analyzer), c)].keywords
    IN  \E i \in 1..Len(row) :
            /\ row[i].t # "null"
            /\ LET text == lower(FieldText(row[i]))
               IN  \E k \in 1..Len(keywords) : Contains(text, lower(keywords[k]))

\* the scan is over, and the table's scan did not raise
ScannedTable(table) ==
    pc = "searched" /\ table.name \in tables_read \ failed

\* no two Matches of a category come from the same row of the same table,
\* and, when its table has been scanned (in full mode, unless quick_too), a
\* row has one Match in a category exactly when it matches the category
OneMatchPerCategory(quick_too) ==
    (analyzer \in ClassifyingAnalyzers /\ store = "ok") =>
        \A c \in DOMAIN results.keywords :
            /\ \A p, q \in 1..Len(results.keywords[c]) :
                   p < q => \/ results.keywords[c][p].table # results.keywords[c][q].table
                            \/ results.keywords[c][p].data # results.keywords[c][q].data
            /\ (pc = "searched" /\ (quick_too \/ ~options.quick_mode)) =>
                   \A t \in 1..Len(db) :
                       ScannedTable(db[t]) =>
                           \A r \in 1..Len(db[t].rows) :
                               Cardinality(RowMatches(db[t], db[t].rows[r], c))
                                   = (IF RowMatchesCategory(db[t].rows[r], c) THEN 1 ELSE 0)

\* C15 (as amended): for each row and each category at most one Match is
\* emitted, however many of the category's keywords and however many fields
\* hit; a row of a table scanned without row limit and without error that
\* matches k categories yields exactly k Matches, one in each.
C15_OneMatchPerRowAndCategory == OneMatchPerCategory(FALSE)

\* C15 as stated: ... a scanned row that matches k categories yields exactly k
\* Matches, in every scan.
C15_ExactlyOnePerMatchingCategory == OneMatchPerCategory(TRUE)

\* a row hit by two keywords of authentication in both its fields has one
\* Match there, and a row that matches the six categories has six Matches
C15_Witness ==
    /\ analyzer = "keyword" /\ ~options.quick_mode /\ pc = "searched" /\ failed = {}
    /\ db[1].rows = <<RowPool[1], RowPool[3]>>
    /\ Cardinality(RowMatches(db[1], RowPool[1], "authentication")) = 1
    /\ \A c \in DOMAIN results.keywords :
           Cardinality(RowMatches(db[1], RowPool[3], c)) = 1


\* C17: no summary or report computation divides by zero, in any state of a
\* run: the summary of the analyzer computed on the result as it stands is
\* never a division fault, and neither is the one the run computed; and a
\* summary computed on a result with zero matches holds 0 for every tier and
\* category percentage.
C17_NoDivisionByZero ==
    /\ (analyzer \in ClassifyingAnalyzers) =>
           summary_of(analyzer, results) # ZeroDivisionError
    /\ (report # NoReport) =>
           /\ report # ZeroDivisionError
           /\ (report.total_matches = 0) =>
                  /\ \A x \in report_percentages(report) : x.num = 0
                  /\ report.high_sensitive = 0
                  /\ report.medium_sensitive = 0
                  /\ report.low_sensitive = 0

\* a security report computed after a scan that read a table with rows and found
\* nothing: both tier percentages are the guarded 0
C17_Witness ==
    /\ analyzer = "keyword"
    /\ pc = "searched"
    /\ report # NoReport
    /\ report # ZeroDivisionError
    /\ report.total_matches = 0
    /\ report.high_percentage = Ratio(0, 1)
    /\ report.medium_percentage = Ratio(0, 1)
    /\ tables_read # {}
    /\ failed = {}
    /\ \E t \in 1..Len(db) : Len(db[t].rows) > 0
    /\ Len(results.raw_data) = 0


\* the numbers of matches of a result: per category, per tier, and per
\* category and tier
Counts(found) ==
    [total    |-> Len(found.raw_data),
     tier     |-> [s \in {"high", "medium", "low"} |-> tier_count(found.raw_data, s)],
     category |-> [c \in DOMAIN found.keywords |->
                      [s \in {"high", "medium", "low"} |->
                          tier_count(found.keywords[c], s)]]]

-----------------------------------------------------------------------------
(* One field value through the exports, the converter and the credentials *)
(* extractor: the inputs and the steps                                     *)

DocumentKeys ==
    {"settings", "accessToken", "apiKey", "apiToken", "userId", "plan", "status"}

LongLeaf == 51

ObjectText(key, text) == "{\"" \o key \o "\": " \o text \o "}"
ArrayText(text) == "[" \o text \o "]"

\* JSON texts: an object with one key and a leaf (a short string, an int, a
\* string longer than the value preview), an object in an object, an object
\* in an array in an object, an object in an array
DocumentTexts ==
    {ObjectText(k, l) : k \in DocumentKeys,
                        l \in {"\"v1\"", "7", "\"" \o Filler(LongLeaf) \o "\""}}
    \cup {ObjectText(k1, ObjectText(k2, "\"v1\"")) : k1 \in DocumentKeys, k2 \in DocumentKeys}
    \cup {ObjectText(k1, ArrayText(ObjectText(k2, "\"v1\""))) :
             k1 \in DocumentKeys, k2 \in DocumentKeys}
    \cup {ArrayText(ObjectText(k, "\"v1\"")) : k \in DocumentKeys}

\* texts that start with { or [ and are not JSON: cut short, single-quoted,
\* with a value missing, with a trailing comma, with text after the value
MalformedTexts ==
    {Take(t, Len(t) - 1) :
        t \in {ObjectText(k, l) : k \in DocumentKeys, l \in {"\"v1\"", "7"}}
                 \cup {ArrayText(ObjectText(k, "\"v1\"")) : k \in DocumentKeys}}
    \cup {"{", "[", " {'plan': 'pro'}", "{\"plan\": }", "[1, 2,]", "{\"status\": 1} x",
          "[BINARY DATA]"}

\* null, an int, bytes that are not UTF-8 (with their base64 text), bytes
\* that are, and texts: JSON, malformed, plain
DocumentValues ==
    {NULL, IntVal(7), [t |-> "bytes", s |-> "\\xff\\xfe", b64 |-> "//4="],
     BytesVal("{\"accessToken\": \"v1\"}"), BytesVal("{\"accessToken\": \"v1\""),
     BytesVal("token")}
    \cup {TextVal(t) : t \in DocumentTexts \cup MalformedTexts
                             \cup {"", "plan pro", " token {\"plan\": 1}"}}

DocumentSchemas == {<<"key", "value">>, <<"name", "access_token">>}

DocumentInit ==
    /\ r_columns \in DocumentSchemas
    /\ r_row \in {<<TextVal("cursorAuth/state"), v>> : v \in DocumentValues}
    /\ r_op = "none"
    /\ r_out = <<>>
    /\ analyzer = "keyword" /\ store = "ok" /\ db = <<>> /\ options = DefaultOptions
    /\ pc = "start" /\ conn = "none" /\ next_table = 0 /\ results = EmptyResults
    /\ batch = NoBatch /\ processed_rows = 0 /\ artifacts = {}
    /\ exported = NoExport
    /\ failed = {} /\ tables_read = {} /\ report = NoReport /\ calls = 0

\* self.results after search_keywords on the one-row table, full mode
DocumentResults ==
    merge_table([EmptyResults EXCEPT !.keywords = EmptyMatches(target_keywords)],
                search_in_table(RecordTable, FALSE, 1000, 0),
                target_keywords, FALSE, 1000)

\* the per-field step of KeywordAnalyzer.export_results on the value
ApplyExportValue ==
    /\ r_op = "none"
    /\ r_op' = "export_value"
    /\ r_out' = export_value(r_row[2])
    /\ UNCHANGED <<r_columns, r_row, run_vars>>

\* StateVscdbConverter.process_value on the value
ApplyProcessValue ==
    /\ r_op = "none"
    /\ r_op' = "process_value"
    /\ r_out' = process_value(r_row[2])
    /\ UNCHANGED <<r_columns, r_row, run_vars>>

\* KeywordAnalyzer.extract_credentials_info on the matches of the record
ApplyExtractCredentials ==
    /\ r_op = "none"
    /\ r_op' = "extract_credentials_info"
    /\ r_out' = extract_credentials_info(DocumentResults.raw_data, FALSE)
    /\ UNCHANGED <<r_columns, r_row, run_vars>>

DocumentNext == ApplyExportValue \/ ApplyProcessValue \/ ApplyExtractCredentials

SpecDocument == DocumentInit /\ [][DocumentNext]_vars

-----------------------------------------------------------------------------
(* Properties of the conversions and of the credentials extractor *)

\* text that looks structured: its first character, once stripped, is { or [
LooksStructured(text) == Take(strip(text), 1) \in {"{", "["}

\* a str or decodable bytes value that looks structured and is not JSON
FailsToParse(value) ==
    /\ value.t \in {"text", "bytes"}
    /\ "b64" \notin DOMAIN value
    /\ LooksStructured(value.s)
    /\ ~json_loads(value.s).ok

\* C19: a value that looks like structured text and fails to parse comes out
\* of the export and of the conversion as its original text, no error reaches
\* the caller of the export, of the conversion or of the credentials
\* extractor, and a null value stays null.
C19_MalformedKeptAsText ==
    /\ (r_op = "export_value") =>
           /\ "raised" \notin DOMAIN r_out
           /\ (r_row[2].t = "text" /\ FailsToParse(r_row[2])) => r_out = r_row[2]
           /\ (r_row[2] = NULL) => r_out = NULL
    /\ (r_op = "process_value") =>
           /\ "raised" \notin DOMAIN r_out
           /\ FailsToParse(r_row[2]) => r_out = TextVal(r_row[2].s)
           /\ (r_row[2] = NULL) => r_out = NULL
    /\ (r_op = "extract_credentials_info") =>
           /\ DOMAIN r_out = DOMAIN EmptyCredentials
           /\ (r_row[2] = NULL) => r_out = EmptyCredentials

\* the export met an object cut before its closing brace and kept the text
C19_Witness ==
    /\ r_op = "export_value"
    /\ r_row[2] = TextVal("{\"accessToken\": \"v1\"")
    /\ FailsToParse(r_row[2])
    /\ r_out = TextVal("{\"accessToken\": \"v1\"")

\* the keywords of the five credential sets
CredentialKeywords ==
    json_keys.tokens \o json_keys.api_keys \o json_keys.user_ids
        \o json_keys.subscription_info \o json_keys.account_status

RECURSIVE CredentialLeafKeys(_)
\* the keys, at any depth of a document, that hold a leaf and whose name
\* contains a credential keyword
CredentialLeafKeys(doc) ==
    CASE doc.t = "obj" ->
            UNION {LET m == doc.members[i]
                   IN  IF m.value.t \in {"obj", "arr"} THEN CredentialLeafKeys(m.value)
                       ELSE IF AnyIn(CredentialKeywords, lower(m.key)) THEN {m.key}
                       ELSE {} : i \in 1..Len(doc.members)}
      [] doc.t = "arr" ->
            UNION {CredentialLeafKeys(doc.items[i]) : i \in 1..Len(doc.items)}
      [] OTHER -> {}

\* the keys of the entries of credentials_info
ListedKeys(credentials_info) ==
    UNION {{credentials_info[list][i].key : i \in 1..Len(credentials_info[list])} :
              list \in DOMAIN credentials_info}

\* the document is nested: a container inside its top container
NestedDocument(doc) ==
    \/ doc.t = "obj" /\ \E i \in 1..Len(doc.members) : doc.members[i].value.t \in {"obj", "arr"}
    \/ doc.t = "arr" /\ \E i \in 1..Len(doc.items) : doc.items[i].t \in {"obj", "arr"}

\* C20: when a field of a match parses as a nested document, every leaf key
\* of the document, at every depth, under classified keys and in arrays, whose
\* name contains a credential keyword has an entry in credentials_info.
C20_EveryCredentialLeafKeyListed ==
    (/\ r_op = "extract_credentials_info"
     /\ r_row[2].t = "text"
     /\ Len(DocumentResults.raw_data) > 0
     /\ json_loads(r_row[2].s).ok
     /\ NestedDocument(json_loads(r_row[2].s).doc)) =>
        CredentialLeafKeys(json_loads(r_row[2].s).doc) \subseteq ListedKeys(r_out)


\* the entries of credentials_info, of every list
Entries(credentials_info) ==
    UNION {{credentials_info[list][i] : i \in 1..Len(credentials_info[list])} :
              list \in DOMAIN credentials_info}

\* C21: every entry of credentials_info, of every type, carries a value
\* preview and not the value: the whole text when it has at most 50
\* characters, else 50 characters and the marker "...".
C21_EveryEntryHasBoundedPreview ==
    (r_op = "extract_credentials_info") =>
        \A e \in Entries(r_out) :
            /\ "value_preview" \in DOMAIN e
            /\ "value" \notin DOMAIN e
            /\ \/ Len(e.value_preview) <= PreviewLimit
               \/ /\ Len(e.value_preview) = PreviewLimit + 3
                  /\ TakeLast(e.value_preview, 3) = "..."

\* the five keyword sets in their precedence, and the list and the type of
\* the entry each one gives
CredentialSets ==
    <<[list |-> "tokens", type |-> "token",
       keywords |-> {"token", "access", "refresh", "bearer"}],
      [list |-> "api_keys", type |-> "api_key", keywords |-> {"api", "key", "secret"}],
      [list |-> "user_ids", type |-> "user_id", keywords |-> {"userid", "user_id", "uid"}],
      [list |-> "subscription_info", type |-> "subscription",
       keywords |-> {"plan", "subscription", "trial", "premium", "pro"}],
      [list |-> "account_status", type |-> "status",
       keywords |-> {"status", "active", "enabled"}]>>

\* the sets one of whose keywords occurs in the lowercased key
SetsOf(key) ==
    {n \in 1..Len(CredentialSets) :
        \E k \in CredentialSets[n].keywords : Contains(lower(key), k)}

\* the number of entries of a list with the key
EntriesWith(entries, key) ==
    Cardinality({i \in 1..Len(entries) : entries[i].key = key})

\* C30: for a match whose value parses as an object, each key of the object
\* has at most one entry per parse, in the list of the first keyword set, in
\* the fixed precedence, that matches it, with that set's type, and in no
\* other list; a key that matches no set has no entry.
C30_OneEntryPerKeyByPrecedence ==
    (/\ r_op = "extract_credentials_info"
     /\ r_row[2].t = "text"
     /\ Take(strip(r_row[2].s), 1) = "{"
     /\ json_loads(r_row[2].s).ok) =>
        LET doc == json_loads(r_row[2].s).doc
            parses == Len(DocumentResults.raw_data)
        IN  \A i \in 1..Len(doc.members) :
                LET key == doc.members[i].key
                    first == IF SetsOf(key) = {} THEN 0
                             ELSE CHOOSE n \in SetsOf(key) : \A m \in SetsOf(key) : n <= m
                IN  \A n \in 1..Len(CredentialSets) :
                        LET entries == r_out[CredentialSets[n].list]
                        IN  /\ EntriesWith(entries, key) = (IF n = first THEN parses ELSE 0)
                            /\ \A j \in 1..Len(entries) :
                                   entries[j].type = CredentialSets[n].type

\* a key that matches the first and the second set was met once and is listed
\* once, as a token
C30_Witness ==
    /\ r_op = "extract_credentials_info"
    /\ r_row[2] = TextVal("{\"apiToken\": \"v1\"}")
    /\ SetsOf("apiToken") = {1, 2}
    /\ Len(r_out.tokens) = Len(DocumentResults.raw_data)
    /\ Len(r_out.tokens) >= 1
    /\ r_out.tokens[1].key = "apiToken"
    /\ r_out.tokens[1].type = "token"
    /\ r_out.api_keys = <<>>


-----------------------------------------------------------------------------
(* Properties of the counts of a run *)

RECURSIVE TotalLen(_, _)
\* the sum of the sizes of the lists of the categories
TotalLen(keywords, categories) ==
    IF categories = {} THEN 0
    ELSE LET c == CHOOSE x \in categories : TRUE
         IN  Len(keywords[c]) + TotalLen(keywords, categories \ {c})

\* the number of times a match occurs in a list
Occurrences(matches, m) == Cardinality({j \in 1..Len(matches) : matches[j] = m})

\* C22: after a completed scan every stored match sits in the bucket of its
\* own category and of no other, has one of the three tiers, and the total
\* number of matches equals the sum of the bucket sizes and equals
\* high + medium + low, in the result and in the summary computed from it.
C22_CountsAgree ==
    (analyzer \in ClassifyingAnalyzers /\ pc \in {"searched", "done"}) =>
        /\ \A c \in DOMAIN results.keywords :
               \A j \in 1..Len(results.keywords[c]) :
                   /\ results.keywords[c][j].category = c
                   /\ results.keywords[c][j].sensitivity \in Tiers
        /\ \A j \in 1..Len(results.raw_data) :
               LET m == results.raw_data[j]
               IN  Occurrences(results.raw_data, m)
                       = Occurrences(results.keywords[m.category], m)
        /\ Len(results.raw_data) = TotalLen(results.keywords, DOMAIN results.keywords)
        /\ Len(results.raw_data) = TierCount(results.raw_data, "high")
                                       + TierCount(results.raw_data, "medium")
                                       + TierCount(results.raw_data, "low")
        /\ (report # NoReport /\ report # ZeroDivisionError) =>
               /\ report.total_matches = Len(results.raw_data)
               /\ report.low_sensitive = TierCount(results.raw_data, "low")

\* a scan of the advanced analyzer is over, with more than one bucket filled,
\* matches of two tiers, and its summary computed
C22_Witness ==
    /\ analyzer = "advanced"
    /\ pc = "done"
    /\ report # NoReport
    /\ Cardinality({c \in DOMAIN results.keywords : Len(results.keywords[c]) > 0}) >= 2
    /\ TierCount(results.raw_data, "high") >= 1
    /\ TierCount(results.raw_data, "low") >= 1
    /\ report.total_matches = Len(results.raw_data)


\* the number of matches whose matched_keywords contain the keyword
MatchesWith(raw_data, keyword) ==
    Cardinality({j \in 1..Len(raw_data) : InSeq(keyword, raw_data[j].matched_keywords)})

\* the keywords some match holds
KeywordsMatched(raw_data) ==
    UNION {{raw_data[j].matched_keywords[i] : i \in 1..Len(raw_data[j].matched_keywords)} :
              j \in 1..Len(raw_data)}

\* C23: the top-keywords table of the overall summary lists at most 10
\* keywords, each once and with the number of matches whose matched_keywords
\* contain it, in non-increasing order of count, and no keyword left out has
\* a greater count than a listed one.
C23_TopKeywords ==
    (analyzer = "advanced" /\ report # NoReport /\ report # ZeroDivisionError) =>
        LET top == report.top_keywords
            listed == {top[i].key : i \in 1..Len(top)}
        IN  /\ Len(top) <= TopKeywords
            /\ Len(top) = Min(TopKeywords, Cardinality(KeywordsMatched(results.raw_data)))
            /\ Cardinality(listed) = Len(top)
            /\ listed \subseteq KeywordsMatched(results.raw_data)
            /\ \A i \in 1..Len(top) :
                   top[i].value = MatchesWith(results.raw_data, top[i].key)
            /\ \A i, j \in 1..Len(top) : i < j => top[i].value >= top[j].value
            /\ \A k \in KeywordsMatched(results.raw_data) \ listed :
                   \A i \in 1..Len(top) :
                       MatchesWith(results.raw_data, k) <= top[i].value

\* a summary over matches that hold more than 10 keywords: 10 are listed, one
\* with two matches first and one with a single match last
C23_Witness ==
    /\ analyzer = "advanced"
    /\ report # NoReport
    /\ Cardinality(KeywordsMatched(results.raw_data)) > TopKeywords
    /\ Len(report.top_keywords) = TopKeywords
    /\ report.top_keywords[1].value = 2
    /\ report.top_keywords[TopKeywords].value = 1


-----------------------------------------------------------------------------
(* The batched scan of a table: every row once, and termination *)

\* the matches of category c, among those found, that carry the row
MatchesOfRow(matches, table, row) ==
    Cardinality({j \in 1..Len(matches) : matches[j].data = RowData(table.columns, row)})

\* the scan of the table the batches were taken from is over
BatchesOver == pc # "batch" \/ next_table # batch.table

\* C24: the batched scan of a table terminates, for every table and every
\* batch size >= 1: a turn of its loop is taken only while rows remain, and
\* either ends the loop or raises the number of rows processed, which never
\* passes the number of rows of the table.  When the scan has completed
\* without error every row of the table has been classified exactly once:
\* per category, a row that matches has one match and a row that does not
\* has none, and the number of rows processed is the number of rows.
C24_EveryRowOnceAndTerminates ==
    /\ [](  (/\ analyzer = "optimized"
             /\ batch.table # 0
             /\ db[batch.table].name \notin failed
             /\ BatchesOver) =>
                LET table == db[batch.table]
                IN  /\ batch.processed = Len(table.rows)
                    /\ \A r \in 1..Len(table.rows) :
                           \A c \in DOMAIN batch.category_matches :
                               MatchesOfRow(batch.category_matches[c], table, table.rows[r])
                                   = Len(SinglePass([table EXCEPT
                                                        !.rows = <<table.rows[r]>>])[c]))
    /\ [][(pc = "batch") =>
              /\ options.batch_size >= 1
              /\ batch.processed < batch.total_rows
              /\ batch.total_rows = Len(db[batch.table].rows)
              /\ batch'.total_rows = batch.total_rows
              /\ batch'.processed <= batch.total_rows
              /\ \/ pc' # "batch"
                 \/ /\ next_table' = next_table
                    /\ batch'.table = batch.table
                    /\ batch'.processed > batch.processed]_vars

\* the first table, of two rows, has been scanned in two batches of one row,
\* without error, and the scan has moved on
C24_Witness ==
    /\ analyzer = "optimized" /\ options.batch_size = 1
    /\ failed = {}
    /\ batch.table = 1 /\ batch.processed = 2
    /\ Len(db[1].rows) = 2
    /\ next_table = 2
    /\ pc = "scan"


(* The results of repeated search calls *)

\* C25: on one object, after every completed search call, a second or later
\* one included, results['raw_data'] has as many entries as the per-category
\* lists of results['keywords'] have together, and every raw_data entry is
\* an element of its category's list
C25_RawDataAgreesAfterEveryCall ==
    (pc = "searched" /\ analyzer \in {"keyword", "advanced", "optimized"}) =>
        /\ Len(results.raw_data)
               = TotalLen(results.keywords, DOMAIN results.keywords)
        /\ \A i \in 1..Len(results.raw_data) :
               LET m == results.raw_data[i]
               IN  Occurrences(results.keywords[m.category], m) >= 1


(* Quick mode *)

\* C26: in quick mode with max_items = M, whatever tables have been
\* processed, every per-category list holds at most M Matches and every
\* (table, category) pair has contributed at most M div (number of
\* categories) Matches
C26_QuickModeBounds ==
    (analyzer \in {"keyword", "advanced"} /\ options.quick_mode
        /\ results.keywords # <<>>) =>
        \A c \in DOMAIN results.keywords :
            /\ Len(results.keywords[c]) <= options.max_items
            /\ \A i \in 1..Len(db) :
                   Len(MatchesOf(db[i].name, c))
                       <= options.max_items \div Cardinality(DOMAIN results.keywords)

\* a list has been filled to the limit: some table of three matching rows
\* gave two of them, the query's limit, and a later one gave one, the slot
\* that was left
C26_Witness ==
    /\ options.quick_mode /\ pc = "searched"
    /\ results.keywords # <<>>
    /\ Len(results.keywords["authentication"]) = options.max_items
    /\ \E i, j \in 1..Len(db) :
           /\ i < j
           /\ Len(db[i].rows) = 3 /\ Len(MatchesOf(db[i].name, "authentication")) = 2
           /\ Len(db[j].rows) = 3 /\ Len(MatchesOf(db[j].name, "authentication")) = 1


(* The filtered export *)

\* what an entry may be made of: the Match's table, category,
\* matched_keywords and sensitivity, and the number of its fields
FilteredEntry(a, table, category, keywords, sensitivity, fields) ==
    IF a = "keyword"
    THEN [table |-> table, category |-> category, matched_keywords |-> keywords,
          sensitivity |-> sensitivity,
          data |-> <<[key   |-> "[SENSITIVE DATA FILTERED]",
                      value |-> TextVal("Use include_sensitive=True to export")]>>]
    ELSE [table |-> table, category |-> category, matched_keywords |-> keywords,
          sensitivity |-> sensitivity,
          data_summary |-> "[FILTERED - " \o NatStr(fields) \o " sensitive fields]"]

\* C27: with include_sensitive = false the exported entry of a
\* high-sensitivity Match is a function of its table, category,
\* matched_keywords, sensitivity and number of fields alone, so Matches that
\* agree on these have the same entry whatever their field values are, and
\* the entry holds none of the record's fields.
C27_FilteredEntryIgnoresValues ==
    (analyzer \in {"keyword", "optimized"} /\ exported.written
        /\ ~exported.include_sensitive) =>
        \A c \in DOMAIN results.keywords :
            \A j \in 1..Len(results.keywords[c]) :
                LET m == results.keywords[c][j]
                IN  m.sensitivity = "high" =>
                        /\ c \in DOMAIN exported.detailed_results
                        /\ j <= Len(exported.detailed_results[c])
                        /\ exported.detailed_results[c][j]
                               = FilteredEntry(analyzer, m.table, m.category,
                                               m.matched_keywords, m.sensitivity,
                                               Len(m.data))

\* a filtered export of the optimized analyzer that holds the entry of a
\* high-sensitivity Match with a text field, and next to it the entry of a
\* Match of another tier with its data
C27_Witness ==
    /\ analyzer = "optimized" /\ pc = "done" /\ failed = {}
    /\ exported.written /\ ~exported.include_sensitive
    /\ \E c \in DOMAIN results.keywords :
           \E i, j \in 1..Len(results.keywords[c]) :
               /\ results.keywords[c][i].sensitivity = "high"
               /\ \E f \in 1..Len(results.keywords[c][i].data) :
                      results.keywords[c][i].data[f].value.t = "text"
               /\ results.keywords[c][j].sensitivity # "high"
               /\ "data" \in DOMAIN exported.detailed_results[c][j]


(* The connection at the end of a run *)

\* C28: in every run that has opened the store, the connection is closed by
\* the time the run is over, whether it completed, returned early for want
\* of matches, or an error was raised during scanning, summary or report
\* writing
C28_ClosedWhenRunIsOver ==
    (pc \in {"done", "crashed"} /\ conn # "none") => conn = "closed"


(* The categories of the cursor analyzer *)

\* the text of a record: the names and the values of its fields that are
\* not null
RECURSIVE NonNullText(_)
NonNullText(data) ==
    IF Len(data) = 0 THEN ""
    ELSE (IF Head(data).value.t # "null"
          THEN " " \o Head(data).key \o " " \o Str(Head(data).value)
          ELSE "") \o NonNullText(Tail(data))

\* the categories, 'other' left out, that have a keyword in a text
CategoriesIn(text) ==
    {k \in 1..Len(cursor_categories) :
        /\ cursor_categories[k].name # "other"
        /\ AnyIn(cursor_categories[k].keywords, text)}

\* the first of them in declaration order, and 'other' when there is none
FirstCategory(text) ==
    IF CategoriesIn(text) = {} THEN "other"
    ELSE cursor_categories[CHOOSE k \in CategoriesIn(text) :
                               \A j \in CategoriesIn(text) : k <= j].name

\* C29: after one categorization pass every raw match is in the list of
\* exactly one category, the first in declaration order ('other' left out)
\* with a keyword in the lowercased text of the record's column names and
\* non-null values, 'other' exactly when no category has one, and the sizes
\* of the category lists sum to total_matches
C29_FirstCategoryOfNonNullText ==
    (analyzer = "cursor" /\ pc = "done" /\ results.total_matches > 0) =>
        /\ \A i \in 1..Len(results.raw_data) :
               LET m == results.raw_data[i]
               IN  \A c \in DOMAIN results.categories :
                       Occurrences(results.categories[c], m)
                           = IF c = FirstCategory(lower(NonNullText(m.data)))
                             THEN Occurrences(results.raw_data, m) ELSE 0
        /\ TotalLen(results.categories, DOMAIN results.categories)
               = results.total_matches

====
